---- MODULE Spec2Model ----
(***************************************************************************)
(* Model of the Bundle Engine of heaven-trading-bot (src/src/bundler.rs):  *)
(* the pending list, the active set and the result history of BundlerBot,  *)
(* the main bundler loop, add_transaction_to_bundle and the status query,  *)
(* together with the RwLocks that guard the three collections.             *)
(*                                                                         *)
(* Ledger calls (send, status poll, slot, blockhash, prioritization fees)  *)
(* are inputs: each reply is chosen with \E from a small set.  The wall    *)
(* clock read by Utc::now() is the variable now, advanced by ClockAdvance. *)
(* Vec indices are 1-based here and 0-based in the source.                 *)
(*                                                                         *)
(* Modelling decisions:                                                    *)
(*  - tokio::time::sleep is recorded in delays; the clock itself moves     *)
(*    only by ClockAdvance, so any amount of time may pass around a sleep. *)
(*  - wait_for_bundle_confirmation is one step whose input is the number   *)
(*    of undecided polls and the first decided reply.                      *)
(*  - A lock is a writer name plus a set of reader names; the FIFO queue   *)
(*    of tokio's RwLock is not modelled.                                   *)
(*  - get_slot always answers with a slot; f64 arithmetic is exact for the *)
(*    multipliers used (halves).                                           *)
(*  - Transactions and bundles are numbered in the order they are          *)
(*    accepted and created; a uuid is any fresh value.                     *)
(***************************************************************************)
EXTENDS Integers, Sequences, FiniteSets, TLC

\* ---------------------------------------------------------------- bounds
MaxTx == 3                \* add_transaction_to_bundle calls in one run
MaxSizeChoice == 2        \* largest max_bundle_size a configuration is given
MaxNow == 2000            \* the clock stops advancing here (ms)
ClockStep == 1000         \* granularity of the clock (ms)
Overfill == 50            \* a pre-filled history exceeds HistoryCap by this much
MaxCopies == 2            \* copy trades opened in one run

\* ------------------------------------------------------ program constants
max_retries == 3          \* submit_with_priority_fee
max_attempts == 30        \* wait_for_bundle_confirmation
BackoffUnitMs == 100      \* submit_with_priority_fee: 100 * retries
HistoryCap == 1000        \* cleanup_completed_bundles
DefaultMaxBundleTimeMs == 1000   \* BotConfig::default bundler.max_bundle_time_ms

None == -1                \* Option::None for u64 / signature fields
TargetSlot == 7           \* the slot a configured target_block names

\* replies of get_recent_prioritization_fees (a list, possibly empty)
FeeLists == { <<>>, <<50>>, <<200>>, <<200, 50>> }
\* (compute_unit_price, priority_fee_multiplier as num/den) pairs
DefaultFeeConfig == [price |-> 100, num |-> 3, den |-> 2]
FeeConfigs == { DefaultFeeConfig,
                [price |-> 101, num |-> 3, den |-> 2],
                [price |-> 100, num |-> 1, den |-> 2] }
\* replies of get_slot
SlotReplies == { TargetSlot - 1, TargetSlot }
\* replies of get_transaction_status
StatusReplies == { "ok", "err", "pending", "rpc_error" }

VARIABLES
    config,          \* BotConfig fields the bundler reads
    is_running,      \* BundlerBot.is_running
    pending_bundles, \* BundlerBot.pending_bundles : Vec<Bundle>
    active_bundles,  \* BundlerBot.active_bundles  : HashMap<String, Bundle>
    bundle_history,  \* BundlerBot.bundle_history  : Vec<BundleResult>
    pendingW, pendingR,   \* holder of the write lock / holders of the read lock
    activeW, activeR,
    historyW, historyR,
    now,             \* wall clock (ms)
    ledger_fees,     \* what get_recent_prioritization_fees returns at present
    nextTick,        \* deadline of the loop's tokio interval
    tickPc,          \* position of main_bundler_loop
    idx,             \* process_pending_bundles: index of the bundle in hand
    to_remove,       \* process_pending_bundles: indices to remove
    retries,         \* submit_with_priority_fee: failures so far
    delays,          \* submit_with_priority_fee: the sleeps it made (ms)
    signature,       \* signature returned by the send
    current_slot,    \* should_submit_bundle: the reply of get_slot, if it asked
    monitor_log,     \* monitor_active_bundles: the status reply for each bundle
    submit_result,   \* what submit_bundle returned for the bundle in hand
    addPc, addTx, addCreatedAt,  \* add_transaction_to_bundle in flight
    statusPc,        \* get_bundler_status in flight
    nextTx, nextId,  \* numbers of the next accepted transaction / created bundle
    ticks,           \* history: ticks begun
    accepted,        \* history: transactions add_transaction_to_bundle accepted
    submitLog,       \* history: bundle ids handed to submit_bundle
    pushedIds        \* history: the bundle id of every BundleResult ever pushed

\* SniperBot (src/src/sniper.rs)
VARIABLES
    sniper_config,       \* BotConfig fields the sniper reads
    sniper_is_running,   \* SniperBot.is_running
    last_scan_time,      \* SniperBot.last_scan_time (ms)
    lastScanW, lastScanR,    \* its write-lock holder / read-lock holders
    active_snipes,       \* SniperBot.active_snipes : HashMap<String, ActiveSnipe>
    snipesW, snipesR,
    sniperPc,            \* position of main_sniper_loop
    sniperNextTick,      \* deadline of the loop's tokio interval
    new_launches,        \* scan_new_launches: listings not yet looked at
    snipeTodo,           \* process_active_snipes: entries not yet visited
    snipe_to_remove,     \* process_active_snipes: to_remove
    sell_result,         \* what the closing trade of each visited entry did
    sniperStatusPc,      \* get_sniper_status in flight
    scanNote,            \* history: what happened in the scan of this tick
    evaluated,           \* history: how often each (mint, launch time) was evaluated
    entry_log,           \* history: the last entry trade of this tick and its metric
    prev_watermark       \* history: the watermark the scan before this one tested with

sniperVars == << sniper_config, sniper_is_running, last_scan_time, lastScanW, lastScanR,
                 active_snipes, snipesW, snipesR, sniperPc, sniperNextTick,
                 new_launches, snipeTodo, snipe_to_remove, sell_result,
                 sniperStatusPc, scanNote, evaluated, entry_log, prev_watermark >>

\* CopyTraderBot (src/src/copy_trader.rs)
VARIABLES
    copy_config,         \* BotConfig fields the copy trader reads
    copy_is_running,     \* CopyTraderBot.is_running
    tracked_traders,     \* CopyTraderBot.tracked_traders (the addresses)
    active_copy_trades,  \* CopyTraderBot.active_copy_trades
    copyPc,              \* position of start / main_copy_trading_loop
    copyNextTick,        \* deadline of the loop's tokio interval
    scanTodo,            \* scan_trader_activity: traders not yet asked
    recent_trades,       \* scan_trader_activity: trades not yet looked at
    copyTodo,            \* process_copy_trades: entries not yet visited
    copy_to_remove,      \* process_copy_trades: to_remove
    close_result,        \* what the closing trade of each visited entry did
    nextCopyId,          \* number of the next copy trade
    copy_log             \* history: the last copy made in this tick and the replies it saw

copyVars == << copy_config, copy_is_running, tracked_traders,
               active_copy_trades, copyPc, copyNextTick, scanTodo,
               recent_trades, copyTodo, copy_to_remove, close_result,
               nextCopyId, copy_log >>

\* main (src/src/main.rs) and HeavenTradingBot (src/src/bot.rs)
VARIABLES
    command,             \* the subcommand main was given
    bot_config,          \* the BotConfig read from the file
    mainPc,              \* position of main
    sup_is_running,      \* HeavenTradingBot.is_running
    spawned,             \* tasks HeavenTradingBot::start has spawned
    supStopped,          \* history: HeavenTradingBot::stop has returned
    healthPc,            \* position of main_trading_loop
    healthNextTick       \* deadline of its tokio interval

mainVars == << command, bot_config, mainPc, sup_is_running, spawned,
               supStopped, healthPc, healthNextTick >>

VARIABLES
    statsPc              \* get_bundle_stats in flight

\* the decision functions of the sniper and the copy trader, called alone
VARIABLES
    eval_launch,         \* the listing given to evaluate_launch
    eval_result,         \* what evaluate_launch returned for it
    close_input,         \* a position, the price reply, the original's status
    close_decision,      \* what should_sell_snipe / should_close_copy_trade said
    trade_amount,        \* what calculate_trade_amount returned
    quote_input,         \* the pool state, the amount and the slippage of a quote
    buy_quote,           \* what get_buy_quote returned for it
    sell_quote,          \* what get_sell_quote returned for it
    round_trip           \* get_sell_quote of the token amount buy_quote quotes

quoteVars == << quote_input, buy_quote, sell_quote, round_trip >>

\* wait_for_bundle_confirmation (src/src/bundler.rs), poll by poll
VARIABLES
    confirm_result,      \* what the call returned, "polling" while it runs
    attempts,            \* its counter of polls that decided nothing
    polls,               \* history: get_transaction_status calls made
    poll_errors,         \* history: how many of them returned an Err
    last_poll            \* history: the reply of the last one

confirmVars == << confirm_result, attempts, polls, poll_errors, last_poll >>

decisionVars == << eval_launch, eval_result, close_input, close_decision,
                   trade_amount, quoteVars, confirmVars >>

\* everything outside the bundle engine and its status query
otherVars == << sniperVars, copyVars, mainVars, statsPc, decisionVars >>

vars == << config, is_running, pending_bundles, active_bundles, bundle_history,
           pendingW, pendingR, activeW, activeR, historyW, historyR,
           now, ledger_fees, nextTick, tickPc, idx, to_remove, retries, delays, signature, current_slot, monitor_log, submit_result, addPc, addTx, addCreatedAt, statusPc,
           nextTx, nextId, ticks, accepted, submitLog, pushedIds, otherVars >>

collVars == << pending_bundles, active_bundles, bundle_history >>
lockVars == << pendingW, pendingR, activeW, activeR, historyW, historyR >>
clockVars == << now, nextTick, ledger_fees >>
tickVars == << tickPc, idx, to_remove, retries, delays, signature, current_slot, monitor_log,
               submit_result >>
addVars == << addPc, addTx, addCreatedAt >>
idVars == << nextTx, nextId >>
logVars == << ticks, submitLog, pushedIds >>

\* what the sniper's steps leave alone, the clock apart
\* everything of the bundle engine but the clock
bundlerVars == << config, is_running, collVars, lockVars, nextTick,
                  ledger_fees, tickVars, addVars, statusPc, idVars, accepted,
                  logVars >>

\* what the sniper's steps leave alone, the clock apart
notSniper == << bundlerVars, statsPc, decisionVars, copyVars, mainVars >>

\* what the copy trader's steps leave alone, the clock apart
notCopy == << bundlerVars, statsPc, decisionVars, sniperVars, mainVars >>

\* ------------------------------------------------------------- helpers
Last(s) == s[Len(s)]

\* the eviction loop left out: the map as it was
RemoveKeys_Nothing(map, keys) == map

\* for key in to_remove { map.remove(&key); }
RemoveKeys(map, keys) == [ k \in DOMAIN map \ keys |-> map[k] ]

RemoveAt(s, i) == SubSeq(s, 1, i - 1) \o SubSeq(s, i + 1, Len(s))

ReplaceAt(s, i, e) == [s EXCEPT ![i] = e]

RECURSIVE Flatten(_)
Flatten(bs) == IF bs = <<>> THEN <<>>
               ELSE Head(bs).transactions \o Flatten(Tail(bs))

\* Vec::drain(0..n): drop the first n elements
DrainFront(s, n) == SubSeq(s, n + 1, Len(s))

\* ------------------------------------------------ BotConfig::validate
\* The bundler section is not looked at: every max_bundle_size passes.
ConfigsOf(sizes, feeConfigs) ==
    { [ max_bundle_size |-> k,
        max_bundle_time_ms |-> DefaultMaxBundleTimeMs,
        compute_unit_price |-> f.price,
        priority_fee_multiplier |-> [num |-> f.num, den |-> f.den],
        target_block |-> t ] :
      k \in sizes, f \in feeConfigs, t \in {None, TargetSlot} }

\* ------------------------------------------- calculate_priority_fee
\* the network fee read from the other end of the list
calculate_priority_fee_LastEntry(fees) ==
    LET base_fee == config.compute_unit_price
        multiplier == config.priority_fee_multiplier
        network_fee == IF fees # <<>> THEN fees[Len(fees)] ELSE base_fee
    IN  IF base_fee * multiplier.num >= network_fee * multiplier.den
        THEN (base_fee * multiplier.num) \div multiplier.den
        ELSE network_fee

\* (base_fee as f64 * multiplier).max(network_fee as f64) as u64
calculate_priority_fee(fees) ==
    LET base_fee == config.compute_unit_price
        multiplier == config.priority_fee_multiplier
        network_fee == IF fees # <<>> THEN Head(fees) ELSE base_fee
    IN  IF base_fee * multiplier.num >= network_fee * multiplier.den
        THEN (base_fee * multiplier.num) \div multiplier.den
        ELSE network_fee

\* ------------------------------------------- add_transaction_to_bundle
\* the capacity test off by one
HasSpareCapacity_OffByOne(bundle) ==
    Len(bundle.transactions) <= config.max_bundle_size

HasSpareCapacity(bundle) ==
    Len(bundle.transactions) < config.max_bundle_size

NewBundle(id, tx, created, fee) ==
    [ id |-> id, transactions |-> <<tx>>, created_at |-> created,
      target_block |-> config.target_block, priority_fee |-> fee,
      status |-> "pending", bundle_signature |-> None ]

\* a write guard handed out whoever holds the lock
PendingLockFree_Always == TRUE

\* self.pending_bundles.write().await returns: no writer and no reader
PendingLockFree == pendingW = "none" /\ pendingR = {}

\* the push that also stamps the bundle with the present time
PushTransaction_Restamped(bundle, tx) ==
    [bundle EXCEPT !.transactions = Append(@, tx), !.created_at = now + 1]

\* bundle.transactions.push(transaction)
PushTransaction(bundle, tx) ==
    [bundle EXCEPT !.transactions = Append(@, tx)]

\* the call up to its return (room in the last bundle) or up to the fee lookup
AddBegin ==
    /\ addPc = "idle"
    /\ nextTx <= MaxTx
    /\ PendingLockFree
    /\ IF pending_bundles # <<>> /\ HasSpareCapacity(Last(pending_bundles))
       THEN /\ pending_bundles' =
                 ReplaceAt(pending_bundles, Len(pending_bundles),
                    PushTransaction(Last(pending_bundles), nextTx))
            /\ accepted' = Append(accepted, nextTx)
            /\ nextTx' = nextTx + 1
            /\ UNCHANGED << addPc, addTx, addCreatedAt, pendingW >>
       ELSE /\ pendingW' = "add"
            /\ addPc' = "fee"
            /\ addTx' = nextTx
            /\ addCreatedAt' = now
            /\ UNCHANGED << pending_bundles, accepted, nextTx >>
    /\ UNCHANGED << otherVars, config, is_running, active_bundles, bundle_history,
                    pendingR, activeW, activeR, historyW, historyR,
                    clockVars, tickVars, statusPc, nextId, logVars >>

\* get_recent_prioritization_fees answered: the new bundle is pushed
AddCreate ==
    /\ addPc = "fee"
    /\ pending_bundles' = Append(pending_bundles,
           NewBundle(nextId, addTx, addCreatedAt,
                     calculate_priority_fee(ledger_fees)))
    /\ nextId' = nextId + 1
    /\ nextTx' = nextTx + 1
    /\ accepted' = Append(accepted, addTx)
    /\ addPc' = "idle"
    /\ pendingW' = "none"
    /\ addTx' = None /\ addCreatedAt' = None
    /\ UNCHANGED << otherVars, config, is_running, active_bundles, bundle_history,
                    pendingR, activeW, activeR, historyW, historyR,
                    clockVars, tickVars, statusPc, logVars >>

\* get_recent_prioritization_fees failed: `?` returns the error
AddFeeError ==
    /\ addPc = "fee"
    /\ addPc' = "idle"
    /\ pendingW' = "none"
    /\ addTx' = None /\ addCreatedAt' = None
    /\ UNCHANGED << otherVars, config, is_running, collVars, accepted,
                    pendingR, activeW, activeR, historyW, historyR,
                    clockVars, tickVars, statusPc, idVars, logVars >>

\* ----------------------------------------------------- start / stop
Start ==
    /\ tickPc = "stopped"
    /\ is_running' = TRUE
    /\ tickPc' = "loop"
    /\ nextTick' = now          \* tokio interval: the first tick is immediate
    /\ UNCHANGED << otherVars, config, collVars, lockVars, now, ledger_fees, idx, to_remove, retries,
                    delays, signature, current_slot, monitor_log, submit_result, addVars,
                    statusPc, idVars, accepted, logVars >>

Stop ==
    /\ is_running
    /\ is_running' = FALSE
    /\ UNCHANGED << otherVars, config, collVars, lockVars, clockVars, tickVars, addVars,
                    statusPc, idVars, accepted, logVars >>

\* ------------------------------------------------- main_bundler_loop
\* a loop that goes on whatever the flag says
KeepsRunning_Always(flag) == TRUE

\* the condition of each subsystem's while loop: the flag as it is read
KeepsRunning(flag) == flag

\* while *self.is_running.read().await
LoopCheck ==
    /\ tickPc = "loop"
    /\ tickPc' = IF KeepsRunning(is_running) THEN "interval" ELSE "exited"
    /\ UNCHANGED << otherVars, config, is_running, collVars, lockVars, clockVars, idx,
                    to_remove, retries, delays, signature, current_slot, monitor_log,
                    submit_result, addVars, statusPc, idVars, accepted,
                    logVars >>

\* interval.tick().await
IntervalTick ==
    /\ tickPc = "interval"
    /\ now >= nextTick
    /\ nextTick' = nextTick + config.max_bundle_time_ms
    /\ tickPc' = "pp_lock"
    /\ ticks' = ticks + 1
    /\ UNCHANGED << otherVars, config, is_running, collVars, lockVars, now, ledger_fees, idx,
                    to_remove, retries, delays, signature, current_slot, monitor_log,
                    submit_result, addVars, statusPc, idVars, accepted,
                    submitLog, pushedIds >>

\* ------------------------------------------- process_pending_bundles
\* self.pending_bundles.write().await
ProcessLock ==
    /\ tickPc = "pp_lock"
    /\ PendingLockFree
    /\ pendingW' = "tick"
    /\ idx' = 1
    /\ to_remove' = <<>>
    /\ tickPc' = "pp_check"
    /\ UNCHANGED << otherVars, config, is_running, collVars, pendingR, activeW, activeR,
                    historyW, historyR, clockVars, retries, delays, signature, current_slot, monitor_log, submit_result, addVars, statusPc, idVars,
                    accepted, logVars >>

\* the size and age tests joined by "and"
should_submit_bundle_Both(bundle, slot) ==
    IF Len(bundle.transactions) >= config.max_bundle_size
       /\ now - bundle.created_at > config.max_bundle_time_ms THEN TRUE
    ELSE IF bundle.target_block # None THEN slot >= bundle.target_block
    ELSE FALSE

\* a target block taken as reached whatever the slot
TargetReached_Always(slot, target_block) == TRUE

\* if current_slot >= target_block
TargetReached(slot, target_block) == slot >= target_block

\* an age that is never too long
WaitedTooLong_Never(bundle_age, max_wait_time) == FALSE

\* if bundle_age > max_wait_time
WaitedTooLong(bundle_age, max_wait_time) == bundle_age > max_wait_time

\* should_submit_bundle; slot is the reply of get_slot, read only when the
\* first two tests fail and a target block is set
should_submit_bundle(bundle, slot) ==
    IF Len(bundle.transactions) >= config.max_bundle_size THEN TRUE
    ELSE IF WaitedTooLong(now - bundle.created_at, config.max_bundle_time_ms)
         THEN TRUE
    ELSE IF bundle.target_block # None
         THEN TargetReached(slot, bundle.target_block)
    ELSE FALSE

\* whether should_submit_bundle gets as far as self.rpc_client.get_slot()
AsksSlot(bundle) ==
    /\ ~(Len(bundle.transactions) >= config.max_bundle_size)
    /\ ~(now - bundle.created_at > config.max_bundle_time_ms)
    /\ bundle.target_block # None

ShouldSubmit ==
    /\ tickPc = "pp_check"
    /\ idx <= Len(pending_bundles)
    /\ \E slot \in SlotReplies :
       /\ current_slot' = IF AsksSlot(pending_bundles[idx]) THEN slot ELSE None
       /\ IF should_submit_bundle(pending_bundles[idx], slot)
          THEN /\ tickPc' = "pp_build"
               /\ submitLog' = Append(submitLog, pending_bundles[idx].id)
               /\ retries' = 0 /\ delays' = <<>>
               /\ signature' = None /\ submit_result' = "none"
               /\ UNCHANGED idx
          ELSE /\ idx' = idx + 1
               /\ retries' = 0 /\ delays' = <<>>
               /\ signature' = None /\ submit_result' = "none"
               /\ UNCHANGED << tickPc, submitLog >>
    /\ UNCHANGED << otherVars, config, is_running, collVars, lockVars, clockVars,
                    to_remove, addVars, statusPc, idVars, accepted, ticks,
                    pushedIds, monitor_log >>

\* the removal loop without .rev(): later indices have shifted by then
RECURSIVE RemoveProcessed_Forward(_, _)
RemoveProcessed_Forward(bundles, indices) ==
    IF indices = <<>> THEN bundles
    ELSE RemoveProcessed_Forward(RemoveAt(bundles, Head(indices)),
                                 Tail(indices))

\* for &index in to_remove.iter().rev() { pending_bundles.remove(index) }
RECURSIVE RemoveProcessed(_, _)
RemoveProcessed(bundles, indices) ==
    IF indices = <<>> THEN bundles
    ELSE RemoveProcessed(RemoveAt(bundles, Last(indices)),
                         SubSeq(indices, 1, Len(indices) - 1))

ProcessDone ==
    /\ tickPc = "pp_check"
    /\ idx > Len(pending_bundles)
    /\ pending_bundles' = RemoveProcessed(pending_bundles, to_remove)
    /\ pendingW' = "none"
    /\ tickPc' = "monitor"
    /\ idx' = 0 /\ to_remove' = <<>>
    /\ retries' = 0 /\ delays' = <<>>
    /\ signature' = None /\ submit_result' = "none"
    /\ current_slot' = None
    /\ UNCHANGED monitor_log
    /\ UNCHANGED << otherVars, config, is_running, active_bundles, bundle_history,
                    pendingR, activeW, activeR, historyW, historyR, clockVars,
                    addVars, statusPc, idVars, accepted, logVars >>

\* Err(e) arm of the match on submit_bundle: mark failed, remember the index
SubmitFailed(why) ==
    /\ pending_bundles' = ReplaceAt(pending_bundles, idx,
                            [pending_bundles[idx] EXCEPT !.status = "failed"])
    /\ to_remove' = Append(to_remove, idx)
    /\ idx' = idx + 1
    /\ submit_result' = why
    /\ tickPc' = "pp_check"

\* create_bundle_transaction: get_latest_blockhash()? may fail
CreateBundleTransaction ==
    /\ tickPc = "pp_build"
    /\ \E ok \in BOOLEAN :
         IF ok
         THEN /\ tickPc' = "pp_send"
              /\ UNCHANGED << pending_bundles, to_remove, idx, submit_result >>
         ELSE SubmitFailed("build_failed")
    /\ UNCHANGED << otherVars, config, is_running, active_bundles, bundle_history,
                    lockVars, clockVars, retries, delays, signature, current_slot, monitor_log,
                    addVars, statusPc, idVars, accepted, ticks, submitLog,
                    pushedIds >>

\* ------------------------------------------- submit_with_priority_fee
\* a constant backoff
Backoff_Constant(failures) == BackoffUnitMs

Backoff(failures) == BackoffUnitMs * failures

\* the give-up test off by one
RetriesExhausted_Late(failures) == failures > max_retries

RetriesExhausted(failures) == failures >= max_retries

SignatureOf(bundle) == bundle.id

\* One pass of the while loop: a send, and on failure the count and either
\* the Err return or the sleep.  When the loop condition fails the Err after
\* the loop is returned.
SendTransaction ==
    /\ tickPc = "pp_send"
    /\ IF retries < max_retries
       THEN \E ok \in BOOLEAN :
              IF ok
              THEN /\ signature' = SignatureOf(pending_bundles[idx])
                   /\ tickPc' = "pp_confirm"
                   /\ UNCHANGED << retries, delays, pending_bundles, to_remove,
                                   idx, submit_result >>
              ELSE /\ retries' = retries + 1
                   /\ IF RetriesExhausted(retries + 1)
                      THEN /\ SubmitFailed("send_failed")
                           /\ UNCHANGED delays
                      ELSE /\ delays' = Append(delays, Backoff(retries + 1))
                           /\ UNCHANGED << tickPc, pending_bundles, to_remove,
                                           idx, submit_result >>
                   /\ UNCHANGED signature
       ELSE /\ SubmitFailed("send_failed")
            /\ UNCHANGED << retries, delays, signature >>
    /\ UNCHANGED << current_slot, monitor_log >>
    /\ UNCHANGED << otherVars, config, is_running, active_bundles, bundle_history,
                    lockVars, clockVars, addVars, statusPc, idVars,
                    accepted, ticks, submitLog, pushedIds >>

\* ---------------------------------------- wait_for_bundle_confirmation
\* The while loop polls until a reply is ok or err, at most max_attempts
\* times.  undecided is the number of polls answered neither way (a pending
\* status or an RPC error) before the first decided reply, decided.
wait_for_bundle_confirmation(undecided, decided) ==
    IF undecided >= max_attempts
    THEN [ polls |-> max_attempts, result |-> "timeout" ]
    ELSE [ polls |-> undecided + 1,
           result |-> IF decided = "ok" THEN "ok" ELSE "chain_err" ]

\* `?` in submit_bundle turns both Err returns into the Err arm of the match
Confirm ==
    /\ tickPc = "pp_confirm"
    /\ retries' = 0 /\ delays' = <<>>
    /\ \E undecided \in 0..max_attempts, decided \in {"ok", "err"} :
         LET r == wait_for_bundle_confirmation(undecided, decided)
         IN  IF r.result = "ok"
             THEN /\ tickPc' = "pp_active"
                  /\ UNCHANGED << pending_bundles, to_remove, idx,
                                  submit_result >>
             ELSE SubmitFailed(r.result)
    /\ UNCHANGED << otherVars, config, is_running, active_bundles, bundle_history,
                    lockVars, clockVars, signature, current_slot, monitor_log, addVars,
                    statusPc, idVars, accepted, ticks, submitLog, pushedIds >>

\* ------------------------- submit_bundle's Ok value and the Ok(result) arm
BundleResultOf(bundle, sig) ==
    [ bundle_id |-> bundle.id, bundle_signature |-> sig, success |-> TRUE,
      error |-> None,
      total_transactions |-> Len(bundle.transactions),
      priority_fee |-> bundle.priority_fee ]

\* self.active_bundles.write().await; status, signature, insert
ApplyActive ==
    /\ tickPc = "pp_active"
    /\ activeW = "none" /\ activeR = {}
    /\ activeW' = "tick"
    /\ LET b == [pending_bundles[idx] EXCEPT !.status = "submitted",
                                             !.bundle_signature = signature]
       IN  /\ pending_bundles' = ReplaceAt(pending_bundles, idx, b)
           /\ active_bundles' = (b.id :> b) @@ active_bundles
    /\ tickPc' = "pp_history"
    /\ UNCHANGED << otherVars, config, is_running, bundle_history, pendingW, pendingR,
                    activeR, historyW, historyR, clockVars, idx, to_remove,
                    retries, delays, signature, current_slot, monitor_log, submit_result,
                    addVars, statusPc, idVars, accepted, logVars >>

\* self.bundle_history.write().await; push; to_remove.push; both guards drop
ApplyHistory ==
    /\ tickPc = "pp_history"
    /\ historyW = "none" /\ historyR = {}
    /\ LET r == BundleResultOf(pending_bundles[idx], signature)
       IN  /\ bundle_history' = Append(bundle_history, r)
           /\ pushedIds' = Append(pushedIds, r.bundle_id)
    /\ to_remove' = Append(to_remove, idx)
    /\ idx' = idx + 1
    /\ submit_result' = "ok"
    /\ activeW' = "none"
    /\ tickPc' = "pp_check"
    /\ UNCHANGED << otherVars, config, is_running, pending_bundles, active_bundles,
                    pendingW, pendingR, activeR, historyW, historyR, clockVars,
                    retries, delays, signature, current_slot, monitor_log, addVars, statusPc,
                    idVars, accepted, ticks, submitLog >>

\* ------------------------------------------- monitor_active_bundles
\* only a bundle that the ledger reports as confirmed is evicted
monitor_active_bundles_OkOnly(active, reply) ==
    LET keep == { id \in DOMAIN active : reply[id] # "ok" }
    IN  [id \in keep |-> active[id]]

\* every active bundle's status is polled; ok and err are marked and
\* pushed on to_remove, and the loop at the end evicts them.  Every
\* signature in the active set is the string of a Signature, so
\* signature.parse()? does not fail.
monitor_active_bundles(active, reply) ==
    LET keep == { id \in DOMAIN active : reply[id] \notin {"ok", "err"} }
    IN  [id \in keep |-> active[id]]

MonitorActive ==
    /\ tickPc = "monitor"
    /\ activeW = "none" /\ activeR = {}
    /\ \E reply \in [DOMAIN active_bundles -> StatusReplies] :
         /\ active_bundles' = monitor_active_bundles(active_bundles, reply)
         /\ monitor_log' = reply
    /\ tickPc' = "cleanup"
    /\ UNCHANGED << otherVars, config, is_running, pending_bundles, bundle_history,
                    lockVars, clockVars, idx, to_remove, retries, delays,
                    signature, current_slot, submit_result, addVars,
                    statusPc, idVars, accepted, logVars >>

\* ------------------------------------------- cleanup_completed_bundles
\* the trim taken from the wrong end
cleanup_completed_bundles_KeepOldest(history) ==
    IF Len(history) > HistoryCap
    THEN SubSeq(history, 1, HistoryCap)
    ELSE history

cleanup_completed_bundles(history) ==
    IF Len(history) > HistoryCap
    THEN DrainFront(history, Len(history) - HistoryCap)
    ELSE history

Cleanup ==
    /\ tickPc = "cleanup"
    /\ historyW = "none" /\ historyR = {}
    /\ bundle_history' = cleanup_completed_bundles(bundle_history)
    /\ monitor_log' = <<>>
    /\ tickPc' = "metrics"
    /\ UNCHANGED << otherVars, config, is_running, pending_bundles, active_bundles,
                    lockVars, clockVars, idx, to_remove, retries, delays,
                    signature, current_slot, submit_result, addVars,
                    statusPc, idVars, accepted, logVars >>

\* update_bundler_metrics: three short shared reads, then the gauges
UpdateMetrics ==
    /\ tickPc = "metrics"
    /\ pendingW = "none" /\ activeW = "none" /\ historyW = "none"
    /\ tickPc' = "loop"
    /\ UNCHANGED << otherVars, config, is_running, collVars, lockVars, clockVars, idx,
                    to_remove, retries, delays, signature, current_slot, monitor_log,
                    submit_result, addVars, statusPc, idVars, accepted,
                    logVars >>

\* ------------------------------------------------ get_bundler_status
\* the first two read guards taken the other way round
StatusLockOrder_ActiveFirst == << "active", "pending" >>

\* the order of the first two read guards get_bundler_status takes
StatusLockOrder == << "pending", "active" >>

\* a read guard handed out while a writer holds the lock
StatusTake_NoWait(lock) ==
    /\ pendingR' = IF lock = "pending" THEN pendingR \cup {"status"}
                   ELSE pendingR
    /\ activeR' = IF lock = "active" THEN activeR \cup {"status"}
                  ELSE activeR

\* self.<lock>.read().await
StatusTake(lock) ==
    /\ IF lock = "pending" THEN pendingW = "none" ELSE activeW = "none"
    /\ pendingR' = IF lock = "pending" THEN pendingR \cup {"status"}
                   ELSE pendingR
    /\ activeR' = IF lock = "active" THEN activeR \cup {"status"}
                  ELSE activeR

StatusPending ==
    /\ statusPc = "idle"
    /\ StatusTake(StatusLockOrder[1])
    /\ statusPc' = "pending_read"
    /\ UNCHANGED << otherVars, config, is_running, collVars, pendingW, activeW,
                    historyW, historyR, clockVars, tickVars, addVars, idVars,
                    accepted, logVars >>

StatusActive ==
    /\ statusPc = "pending_read"
    /\ StatusTake(StatusLockOrder[2])
    /\ statusPc' = "active_read"
    /\ UNCHANGED << otherVars, config, is_running, collVars, pendingW, activeW,
                    historyW, historyR, clockVars, tickVars, addVars, idVars,
                    accepted, logVars >>

\* history and is_running are read and every guard is dropped on return
StatusReturn ==
    /\ statusPc = "active_read"
    /\ historyW = "none"
    /\ pendingR' = pendingR \ {"status"}
    /\ activeR' = activeR \ {"status"}
    /\ statusPc' = "idle"
    /\ UNCHANGED << otherVars, config, is_running, collVars, pendingW, activeW, historyW,
                    historyR, clockVars, tickVars, addVars, idVars, accepted,
                    logVars >>

\* --------------------------------------------------- get_bundle_stats
StatsCall ==
    /\ statsPc = "idle"
    /\ statsPc' = "called"
    /\ UNCHANGED << bundlerVars, now, decisionVars, sniperVars, copyVars,
                    mainVars >>

\* self.bundle_history.read().await, the sums, the guard dropped on return
StatsReturn ==
    /\ statsPc = "called"
    /\ historyW = "none"
    /\ statsPc' = "idle"
    /\ UNCHANGED << bundlerVars, now, decisionVars, sniperVars, copyVars,
                    mainVars >>

\* ------------------------------------------------------------ clock
ClockAdvance ==
    /\ now + ClockStep <= MaxNow
    /\ now' = now + ClockStep
    /\ UNCHANGED << otherVars, config, is_running, collVars, lockVars, nextTick, ledger_fees,
                    tickVars,
                    addVars, statusPc, idVars, accepted, logVars >>

\* the ledger's prioritization fees move
LedgerFeesChange ==
    /\ \E fees \in FeeLists \ {ledger_fees} : ledger_fees' = fees
    /\ UNCHANGED << otherVars, config, is_running, collVars, lockVars, now, nextTick,
                    tickVars, addVars, statusPc, idVars, accepted, logVars >>

\* =================================================================
\* SniperBot (src/src/sniper.rs)
\* =================================================================
\* Money, prices, market caps and volumes are whole numbers of their
\* smallest unit here; percentages are whole percents; liquidity is in
\* hundredths of a SOL.  create_signed_transaction is a placeholder in the
\* source: the trade it stands for is an input that succeeds, reports a
\* failure or returns an error.

Mints == { "m1", "m2" }

\* BotConfig::default, sniper and trading sections
DefaultSniperConfig ==
    [ whitelisted_tokens |-> {}, blacklisted_tokens |-> {},
      min_market_cap |-> 0, max_market_cap |-> 1000000,
      min_liquidity_sol |-> 1, volume_threshold |-> 1000,
      launch_detection_delay_ms |-> ClockStep,
      profit_taking_percentage |-> 20, stop_loss_percentage |-> 10,
      max_sol_per_trade |-> 100 ]

LowMarketCapLimit == 10000     \* matches_strategy: "$10k threshold"
HighVolumeFactor == 10         \* matches_strategy: volume_threshold * 10.0

\* initialize_strategies
strategies ==
    << "CreatorToken", "CommunityToken", "HighVolume", "LowMarketCap",
       "FlywheelActive" >>

\* the strategy tests with the blacklist left out
matches_strategy_NoBlacklist(launch, strategy) ==
    LET c == sniper_config
    IN  IF c.whitelisted_tokens # {}
           /\ launch.token_mint \notin c.whitelisted_tokens THEN FALSE
        ELSE IF launch.market_cap < c.min_market_cap THEN FALSE
        ELSE IF launch.market_cap > c.max_market_cap THEN FALSE
        ELSE IF launch.liquidity_sol < c.min_liquidity_sol THEN FALSE
        ELSE IF launch.volume_24h < c.volume_threshold THEN FALSE
        ELSE CASE strategy = "CreatorToken" ->
                    launch.token_type = "creator" /\ launch.has_flywheel
               [] strategy = "CommunityToken" ->
                    launch.token_type = "community"
               [] strategy = "HighVolume" ->
                    launch.volume_24h > c.volume_threshold * HighVolumeFactor
               [] strategy = "LowMarketCap" ->
                    launch.market_cap < LowMarketCapLimit
               [] strategy = "FlywheelActive" ->
                    launch.has_flywheel /\ launch.flywheel_activity > 0

\* the filters every strategy shares, then the test of the strategy
matches_strategy(launch, strategy) ==
    LET c == sniper_config
    IN  IF c.whitelisted_tokens # {}
           /\ launch.token_mint \notin c.whitelisted_tokens THEN FALSE
        ELSE IF launch.token_mint \in c.blacklisted_tokens THEN FALSE
        ELSE IF launch.market_cap < c.min_market_cap THEN FALSE
        ELSE IF launch.market_cap > c.max_market_cap THEN FALSE
        ELSE IF launch.liquidity_sol < c.min_liquidity_sol THEN FALSE
        ELSE IF launch.volume_24h < c.volume_threshold THEN FALSE
        ELSE CASE strategy = "CreatorToken" ->
                    launch.token_type = "creator" /\ launch.has_flywheel
               [] strategy = "CommunityToken" ->
                    launch.token_type = "community"
               [] strategy = "HighVolume" ->
                    launch.volume_24h > c.volume_threshold * HighVolumeFactor
               [] strategy = "LowMarketCap" ->
                    launch.market_cap < LowMarketCapLimit
               [] strategy = "FlywheelActive" ->
                    launch.has_flywheel /\ launch.flywheel_activity > 0

\* the list walked from the back: the last strategy that matches
RECURSIVE evaluate_launch_LastMatch(_, _)
evaluate_launch_LastMatch(launch, list) ==
    IF list = <<>> THEN "none"
    ELSE IF matches_strategy(launch, list[Len(list)]) THEN list[Len(list)]
    ELSE evaluate_launch_LastMatch(launch, SubSeq(list, 1, Len(list) - 1))

\* for strategy in list { if matches { return Some(strategy) } } None
RECURSIVE evaluate_launch(_, _)
evaluate_launch(launch, list) ==
    IF list = <<>> THEN "none"
    ELSE IF matches_strategy(launch, Head(list)) THEN Head(list)
    ELSE evaluate_launch(launch, Tail(list))

RiskThreshold == 1000          \* calculate_trade_amount: market_cap < 1000.0

\* the multiplier of each strategy, in tenths
StrategyMultiplier(strategy) ==
    CASE strategy = "CreatorToken" -> 10
      [] strategy = "CommunityToken" -> 7
      [] strategy = "HighVolume" -> 12
      [] strategy = "LowMarketCap" -> 8
      [] strategy = "FlywheelActive" -> 11

\* the risk multiplier, in halves
RiskMultiplier(launch) ==
    IF launch.market_cap < RiskThreshold THEN 1 ELSE 2

Min(a, b) == IF a <= b THEN a ELSE b

\* base_amount * multiplier * risk_multiplier, then .min(max_sol_per_trade).
\* Amounts are thousandths of a SOL; max_sol_per_trade is a multiple of
\* 20 of them, so that the product of tenths and halves is a whole number.
calculate_trade_amount(strategy, launch) ==
    LET base_amount == sniper_config.max_sol_per_trade
        adjusted_amount ==
            (base_amount * StrategyMultiplier(strategy)
               * RiskMultiplier(launch)) \div 20
    IN  Min(adjusted_amount, sniper_config.max_sol_per_trade)

\* the watermark test of scan_new_launches, with "at or after"
IsNewLaunch_OrEqual(launch, last_scan) == launch.launch_time >= last_scan

\* if launch.launch_time > *last_scan
IsNewLaunch(launch, last_scan) == launch.launch_time > last_scan

\* the close rule with the thresholds read as absolute price moves
should_sell_snipe_Absolute(entry_price, price) ==
    IF price = None THEN FALSE
    ELSE \/ price - entry_price >= sniper_config.profit_taking_percentage
         \/ price - entry_price <= 0 - sniper_config.stop_loss_percentage

\* price_change = (current_price - entry_price) / entry_price, compared
\* with the two thresholds; entry_price > 0
should_sell_snipe(entry_price, price) ==
    IF price = None THEN FALSE
    ELSE \/ (price - entry_price) * 100
              >= sniper_config.profit_taking_percentage * entry_price
         \/ (price - entry_price) * 100
              <= (0 - sniper_config.stop_loss_percentage) * entry_price

\* what sell_snipe returns for each outcome of its closing trade: only an
\* error of a call it makes is an Err; a trade that reports failure is
\* logged and the function returns Ok(())
sell_snipe(outcome) == IF outcome = "err" THEN "Err" ELSE "Ok"

\* ---------------------------------------------------- adapter replies
\* two kinds of listing: one the CommunityToken strategy takes and one
\* whose volume is under the threshold
LaunchKinds ==
    { [ token_type |-> "community", market_cap |-> 5000,
        liquidity_sol |-> 100, volume_24h |-> 5000, has_flywheel |-> FALSE,
        flywheel_activity |-> 0, price |-> 100 ],
      [ token_type |-> "community", market_cap |-> 5000,
        liquidity_sol |-> 100, volume_24h |-> 100, has_flywheel |-> FALSE,
        flywheel_activity |-> 0, price |-> 100 ] }

LaunchOf(mint, time, kind) ==
    [ token_mint |-> mint, launch_time |-> time,
      token_type |-> kind.token_type, market_cap |-> kind.market_cap,
      liquidity_sol |-> kind.liquidity_sol, volume_24h |-> kind.volume_24h,
      has_flywheel |-> kind.has_flywheel,
      flywheel_activity |-> kind.flywheel_activity, price |-> kind.price ]

\* launches that have happened by time t
LaunchesOf(mint, t) ==
    { LaunchOf(mint, time, kind) :
        time \in { x \in 0..t : x % ClockStep = 0 }, kind \in LaunchKinds }

\* Ok(list) replies of heaven_client.scan_new_launches at time t
LaunchLists(t) ==
    {<<>>} \cup { <<a>> : a \in LaunchesOf("m1", t) \cup LaunchesOf("m2", t) }
           \cup { <<a, b>> : a \in LaunchesOf("m1", t), b \in LaunchesOf("m2", t) }

\* what a trade does: an error of some call, a transaction that reports
\* failure, a transaction that succeeds
TradeOutcomes == { "err", "failed", "ok" }

\* replies of heaven_client.get_token_price; None is an error
PriceReplies == { None, 89, 105, 121 }

SnipesLockFree == snipesW = "none" /\ snipesR = {}

\* the metric execute_snipe has recorded when its entry trade is decided:
\* record_failed_snipe in the else branch of `if result.success`; nothing
\* yet on success (record_successful_snipe follows the insertion), and
\* nothing when execute_trade(..)? returns the error
EntryMetric(outcome) == IF outcome = "failed" THEN "failed" ELSE "none"

NoEntry == [ outcome |-> "none", metric |-> "none" ]

\* ----------------------------------------------------- start / stop
SniperStart ==
    /\ sniperPc = "stopped"
    /\ sniper_is_running' = TRUE
    /\ sniperPc' = "loop"
    /\ sniperNextTick' = now
    /\ UNCHANGED << notSniper, now, sniper_config, last_scan_time, lastScanW,
                    lastScanR, active_snipes, snipesW, snipesR, new_launches,
                    snipeTodo, snipe_to_remove, sell_result, sniperStatusPc,
                    scanNote, evaluated, entry_log, prev_watermark >>

SniperStop ==
    /\ sniper_is_running
    /\ sniper_is_running' = FALSE
    /\ UNCHANGED << notSniper, now, sniper_config, last_scan_time, lastScanW,
                    lastScanR, active_snipes, snipesW, snipesR, sniperPc,
                    sniperNextTick, new_launches, snipeTodo, snipe_to_remove,
                    sell_result, sniperStatusPc, scanNote, evaluated, entry_log, prev_watermark >>

\* --------------------------------------------------- main_sniper_loop
\* while *self.is_running.read().await
SniperLoopCheck ==
    /\ sniperPc = "loop"
    /\ sniperPc' = IF KeepsRunning(sniper_is_running) THEN "interval"
                   ELSE "exited"
    /\ UNCHANGED << notSniper, now, sniper_config, sniper_is_running,
                    last_scan_time, lastScanW, lastScanR, active_snipes,
                    snipesW, snipesR, sniperNextTick, new_launches, snipeTodo,
                    snipe_to_remove, sell_result, sniperStatusPc, scanNote,
                    evaluated, entry_log, prev_watermark >>

\* interval.tick().await
SniperIntervalTick ==
    /\ sniperPc = "interval"
    /\ now >= sniperNextTick
    /\ sniperNextTick' = sniperNextTick + sniper_config.launch_detection_delay_ms
    /\ sniperPc' = "fetch"
    /\ scanNote' = "none"
    /\ entry_log' = NoEntry
    /\ UNCHANGED << notSniper, now, sniper_config, sniper_is_running,
                    last_scan_time, lastScanW, lastScanR, active_snipes,
                    snipesW, snipesR, new_launches, snipeTodo,
                    snipe_to_remove, sell_result, sniperStatusPc, evaluated,
                    prev_watermark >>

\* -------------------------------------------------- scan_new_launches
\* self.heaven_client.scan_new_launches().await? : an error returns from
\* scan_new_launches at once and the loop goes on to its next iteration
ScanFetch ==
    /\ sniperPc = "fetch"
    /\ \/ /\ new_launches' = <<>>
          /\ scanNote' = "fetch_failed"
          /\ sniperPc' = "loop"
       \/ /\ new_launches' \in LaunchLists(now)
          /\ sniperPc' = "scan_lock"
          /\ UNCHANGED scanNote
    /\ UNCHANGED << notSniper, now, sniper_config, sniper_is_running,
                    last_scan_time, lastScanW, lastScanR, active_snipes,
                    snipesW, snipesR, sniperNextTick, snipeTodo,
                    snipe_to_remove, sell_result, sniperStatusPc, evaluated, entry_log, prev_watermark >>

\* let mut last_scan = self.last_scan_time.write().await
ScanLock ==
    /\ sniperPc = "scan_lock"
    /\ lastScanW = "none" /\ lastScanR = {}
    /\ lastScanW' = "tick"
    /\ sniperPc' = "scan"
    /\ UNCHANGED << notSniper, now, sniper_config, sniper_is_running,
                    last_scan_time, lastScanR, active_snipes, snipesW,
                    snipesR, sniperNextTick, new_launches, snipeTodo,
                    snipe_to_remove, sell_result, sniperStatusPc, scanNote,
                    evaluated, entry_log, prev_watermark >>

\* what tells one listing from another: the adapter returns the same
\* listing again with the same mint and launch time
ListingKey(launch) == << launch.token_mint, launch.launch_time >>

\* history: one more evaluation of the listing with this key
CountOneMore(counts, key) ==
    [ k \in DOMAIN counts \cup {key} |->
        IF k = key
        THEN IF key \in DOMAIN counts THEN counts[key] + 1 ELSE 1
        ELSE counts[k] ]

\* one listing of the for loop: the watermark test, evaluate_launch and
\* execute_snipe up to the insertion into active_snipes
ScanLaunch ==
    /\ sniperPc = "scan"
    /\ new_launches # <<>>
    /\ LET launch == Head(new_launches)
       IN  IF IsNewLaunch(launch, last_scan_time)
           THEN /\ evaluated' = CountOneMore(evaluated, ListingKey(launch))
                /\ IF evaluate_launch(launch, strategies) = "none"
                   THEN /\ new_launches' = Tail(new_launches)
                        /\ UNCHANGED << sniperPc, scanNote, entry_log >>
                   ELSE \E outcome \in TradeOutcomes :
                          /\ entry_log' = [ outcome |-> outcome,
                                            metric |-> EntryMetric(outcome) ]
                          /\ \/ /\ outcome = "ok"
                                /\ sniperPc' = "insert"
                                /\ UNCHANGED << new_launches, scanNote >>
                             \/ /\ outcome = "failed"
                                /\ new_launches' = Tail(new_launches)
                                /\ UNCHANGED << sniperPc, scanNote >>
                             \/ /\ outcome = "err"
                                /\ new_launches' = Tail(new_launches)
                                /\ scanNote' = "snipe_failed"
                                /\ UNCHANGED sniperPc
           ELSE /\ new_launches' = Tail(new_launches)
                /\ UNCHANGED << sniperPc, scanNote, evaluated, entry_log >>
    /\ UNCHANGED << notSniper, now, sniper_config, sniper_is_running,
                    last_scan_time, lastScanW, lastScanR, active_snipes,
                    snipesW, snipesR, sniperNextTick, snipeTodo,
                    snipe_to_remove, sell_result, sniperStatusPc,
                    prev_watermark >>

\* execute_snipe: self.active_snipes.write().await.insert(..), then
\* database.record_trade(..)?, whose error scan_new_launches logs
InsertSnipe ==
    /\ sniperPc = "insert"
    /\ SnipesLockFree
    /\ LET launch == Head(new_launches)
           snipe == [ status |-> "Executed", entry_price |-> launch.price ]
       IN  active_snipes' =
             [ m \in DOMAIN active_snipes \cup {launch.token_mint} |->
                 IF m = launch.token_mint THEN snipe ELSE active_snipes[m] ]
    /\ \E recorded \in BOOLEAN :
         scanNote' = IF recorded THEN scanNote ELSE "snipe_failed"
    /\ new_launches' = Tail(new_launches)
    /\ sniperPc' = "scan"
    /\ UNCHANGED << notSniper, now, sniper_config, sniper_is_running,
                    last_scan_time, lastScanW, lastScanR, snipesW, snipesR,
                    sniperNextTick, snipeTodo, snipe_to_remove, sell_result,
                    sniperStatusPc, evaluated, entry_log, prev_watermark >>

\* the watermark moved only by a scan in which no execute_snipe failed
WatermarkAfterScan_UnlessSnipeFailed(last_scan, note, t) ==
    IF note = "snipe_failed" THEN last_scan ELSE t

\* *last_scan = Utc::now() after the for loop, whatever happened in it
WatermarkAfterScan(last_scan, note, t) == t

\* *last_scan = Utc::now(); Ok(()) : the guard is dropped
ScanEnd ==
    /\ sniperPc = "scan"
    /\ new_launches = <<>>
    /\ last_scan_time' = WatermarkAfterScan(last_scan_time, scanNote, now)
    /\ prev_watermark' = last_scan_time
    /\ lastScanW' = "none"
    /\ scanNote' = IF scanNote = "none" THEN "clean" ELSE scanNote
    /\ sniperPc' = "snipes_lock"
    /\ UNCHANGED << notSniper, now, sniper_config, sniper_is_running,
                    lastScanR, active_snipes, snipesW, snipesR,
                    sniperNextTick, new_launches, snipeTodo, snipe_to_remove,
                    sell_result, sniperStatusPc, evaluated, entry_log >>

\* ------------------------------------------------ process_active_snipes
\* let mut active_snipes = self.active_snipes.write().await
SnipesLock ==
    /\ sniperPc = "snipes_lock"
    /\ SnipesLockFree
    /\ snipesW' = "tick"
    /\ snipeTodo' = DOMAIN active_snipes
    /\ snipe_to_remove' = {}
    /\ sell_result' = [ m \in Mints |-> "none" ]
    /\ sniperPc' = "process"
    /\ UNCHANGED << notSniper, now, sniper_config, sniper_is_running,
                    last_scan_time, lastScanW, lastScanR, active_snipes,
                    snipesR, sniperNextTick, new_launches, sniperStatusPc,
                    scanNote, evaluated, entry_log, prev_watermark >>

\* one entry of the for loop
ProcessSnipe ==
    /\ sniperPc = "process"
    /\ \E m \in snipeTodo :
         /\ snipeTodo' = snipeTodo \ {m}
         /\ IF active_snipes[m].status = "Executed"
            THEN \E price \in PriceReplies :
                   IF should_sell_snipe(active_snipes[m].entry_price, price)
                   THEN \E outcome \in TradeOutcomes :
                          /\ sell_result' = [sell_result EXCEPT ![m] = outcome]
                          /\ IF sell_snipe(outcome) = "Err"
                             THEN UNCHANGED << active_snipes, snipe_to_remove >>
                             ELSE /\ active_snipes' =
                                       [active_snipes EXCEPT ![m].status = "Sold"]
                                  /\ snipe_to_remove' = snipe_to_remove \cup {m}
                   ELSE UNCHANGED << active_snipes, snipe_to_remove,
                                     sell_result >>
            ELSE /\ snipe_to_remove' = snipe_to_remove \cup {m}
                 /\ UNCHANGED << active_snipes, sell_result >>
    /\ UNCHANGED << notSniper, now, sniper_config, sniper_is_running,
                    last_scan_time, lastScanW, lastScanR, snipesW, snipesR,
                    sniperPc, sniperNextTick, new_launches, sniperStatusPc,
                    scanNote, evaluated, entry_log, prev_watermark >>

\* for token_mint in to_remove { active_snipes.remove(..) }; Ok(())
SnipesDone ==
    /\ sniperPc = "process"
    /\ snipeTodo = {}
    /\ active_snipes' = RemoveKeys(active_snipes, snipe_to_remove)
    /\ snipesW' = "none"
    /\ sniperPc' = "metrics"
    /\ UNCHANGED << notSniper, now, sniper_config, sniper_is_running,
                    last_scan_time, lastScanW, lastScanR, snipesR,
                    sniperNextTick, new_launches, snipeTodo, snipe_to_remove,
                    sell_result, sniperStatusPc, scanNote, evaluated, entry_log, prev_watermark >>

\* update_sniper_metrics: self.active_snipes.read().await.len()
UpdateSniperMetrics ==
    /\ sniperPc = "metrics"
    /\ snipesW = "none"
    /\ sniperPc' = "loop"
    /\ UNCHANGED << notSniper, now, sniper_config, sniper_is_running,
                    last_scan_time, lastScanW, lastScanR, active_snipes,
                    snipesW, snipesR, sniperNextTick, new_launches, snipeTodo,
                    snipe_to_remove, sell_result, sniperStatusPc, scanNote,
                    evaluated, entry_log, prev_watermark >>

\* --------------------------------------------------- get_sniper_status
\* let active_snipes = self.active_snipes.read().await
SniperStatusSnipes ==
    /\ sniperStatusPc = "idle"
    /\ snipesW = "none"
    /\ snipesR' = snipesR \cup {"status"}
    /\ sniperStatusPc' = "snipes_read"
    /\ UNCHANGED << notSniper, now, sniper_config, sniper_is_running,
                    last_scan_time, lastScanW, lastScanR, active_snipes,
                    snipesW, sniperPc, sniperNextTick, new_launches,
                    snipeTodo, snipe_to_remove, sell_result, scanNote,
                    evaluated, entry_log, prev_watermark >>

\* is_running and last_scan_time are read and the guard is dropped on return
SniperStatusReturn ==
    /\ sniperStatusPc = "snipes_read"
    /\ lastScanW = "none"
    /\ snipesR' = snipesR \ {"status"}
    /\ sniperStatusPc' = "idle"
    /\ UNCHANGED << notSniper, now, sniper_config, sniper_is_running,
                    last_scan_time, lastScanW, lastScanR, active_snipes,
                    snipesW, sniperPc, sniperNextTick, new_launches,
                    snipeTodo, snipe_to_remove, sell_result, scanNote,
                    evaluated, entry_log, prev_watermark >>

\* the sniper before start(): last_scan_time is Utc::now() at construction
SniperAtRest ==
    /\ sniper_is_running = FALSE
    /\ last_scan_time = 0
    /\ lastScanW = "none" /\ lastScanR = {}
    /\ active_snipes = <<>>
    /\ snipesW = "none" /\ snipesR = {}
    /\ sniperPc = "stopped"
    /\ sniperNextTick = 0
    /\ new_launches = <<>>
    /\ snipeTodo = {} /\ snipe_to_remove = {}
    /\ sell_result = [ m \in Mints |-> "none" ]
    /\ sniperStatusPc = "idle"
    /\ scanNote = "none"
    /\ evaluated = <<>>
    /\ entry_log = NoEntry
    /\ prev_watermark = 0

SniperIdle ==
    /\ sniper_config = DefaultSniperConfig
    /\ SniperAtRest

\* =================================================================
\* CopyTraderBot (src/src/copy_trader.rs)
\* =================================================================
\* Original trades are numbered from 101 and copy trades from 1 (a uuid
\* is any fresh value).  Win rates and percentages are whole percents,
\* SOL amounts hundredths of a SOL.  The locks of the copy trader are not
\* modelled: no caller runs beside its loop here.

\* BotConfig::default, copy_trader and trading sections
DefaultCopyConfig ==
    [ max_traders |-> 10, copy_percentage |-> 10,
      min_trader_balance |-> 100, min_trader_profit |-> 5,
      blacklisted_traders |-> {}, whitelisted_traders |-> {},
      delay_ms |-> ClockStep,
      profit_taking_percentage |-> 20, stop_loss_percentage |-> 10 ]

MinTrackedTrades == 10      \* should_track_trader: "At least 10 trades"

\* rows database.get_tracked_traders may return
TraderRows ==
    { [ address |-> "a1", total_trades |-> 20, win_rate |-> 10,
        total_volume |-> 500 ],
      [ address |-> "a2", total_trades |-> 5, win_rate |-> 10,
        total_volume |-> 500 ] }

should_track_trader(trader) ==
    LET c == copy_config
    IN  IF c.whitelisted_traders # {}
           /\ trader.address \notin c.whitelisted_traders THEN FALSE
        ELSE IF trader.address \in c.blacklisted_traders THEN FALSE
        ELSE /\ trader.total_trades >= MinTrackedTrades
             /\ trader.win_rate >= c.min_trader_profit
             /\ trader.total_volume >= c.min_trader_balance

\* trades heaven_client.get_trader_trades may report
TradeRows ==
    { [ id |-> i, trade_type |-> t, amount_sol |-> a, price |-> 100 ] :
        i \in {101, 102}, t \in {"buy", "sell", "swap"}, a \in {0, 100} }

\* Ok(list) replies of get_trader_trades
TradeLists == {<<>>} \cup { <<t>> : t \in TradeRows }

\* replies of get_sol_balance and get_token_balance; None is an error
BalanceReplies == { None, 0, 1000 }

\* replies of database.get_trade for the mirrored trade: its status, or
\* an error
OriginalReplies == { "db_error", "open", "closed", "sold" }

is_new_trade(trade) == trade.id \notin DOMAIN active_copy_trades

\* an unreadable balance taken for a full wallet
UnwrapOrZero_AsFunded(reply) == IF reply = None THEN 1000 ELSE reply

\* unwrap_or(0.0)
UnwrapOrZero(reply) == IF reply = None THEN 0 ELSE reply

\* the capacity test passed by a full live set
AtCapacity_OneOver(len, max_traders) == len > max_traders

\* active_trades.len() >= self.config.copy_trader.max_traders
AtCapacity(len, max_traders) == len >= max_traders

NoCopy == [ copied |-> FALSE ]

should_copy_trade(trade, sol_balance, token_balance) ==
    IF AtCapacity(Cardinality(DOMAIN active_copy_trades),
                  copy_config.max_traders)
    THEN FALSE
    ELSE IF UnwrapOrZero(sol_balance) * 100
              < trade.amount_sol * copy_config.copy_percentage
    THEN FALSE
    ELSE CASE trade.trade_type = "buy" -> TRUE
           [] trade.trade_type = "sell" -> UnwrapOrZero(token_balance) > 0
           [] OTHER -> FALSE

\* the close rule without the look at the mirrored trade
should_close_copy_trade_PriceOnly(copy_trade, original, price) ==
    IF price = None THEN FALSE
    ELSE \/ (price - copy_trade.price) * 100
              >= copy_config.profit_taking_percentage * copy_trade.price
         \/ (price - copy_trade.price) * 100
              <= (0 - copy_config.stop_loss_percentage) * copy_trade.price

\* the mirrored trade reported closed or sold, else the price rule with
\* copy_trade.price as the entry price (> 0)
should_close_copy_trade(copy_trade, original, price) ==
    IF original \in {"closed", "sold"} THEN TRUE
    ELSE IF price = None THEN FALSE
    ELSE \/ (price - copy_trade.price) * 100
              >= copy_config.profit_taking_percentage * copy_trade.price
         \/ (price - copy_trade.price) * 100
              <= (0 - copy_config.stop_loss_percentage) * copy_trade.price

\* what close_copy_trade returns: for a buy the unwinding sell goes through
\* execute_copy_trade_transaction(..)? and its CopyTradeResult is dropped;
\* a sell and any other type return Ok(()) without a transaction
close_copy_trade(copy_trade, outcome) ==
    IF copy_trade.trade_type = "buy" /\ outcome = "err" THEN "Err" ELSE "Ok"

\* ----------------------------------------------------- start / stop
\* start(): the flag, then initialize_tracked_traders()?
CopyStart ==
    /\ copyPc = "stopped"
    /\ copy_is_running' = TRUE
    /\ copyPc' = "init"
    /\ UNCHANGED << notCopy, now, copy_config, tracked_traders,
                    active_copy_trades, copyNextTick, scanTodo, recent_trades,
                    copyTodo, copy_to_remove, close_result, nextCopyId, copy_log >>

CopyStop ==
    /\ copy_is_running
    /\ copy_is_running' = FALSE
    /\ UNCHANGED << notCopy, now, copy_config, tracked_traders,
                    active_copy_trades, copyPc, copyNextTick, scanTodo,
                    recent_trades, copyTodo, copy_to_remove, close_result,
                    nextCopyId, copy_log >>

\* initialize_tracked_traders: an error of the database ends start()
InitializeTrackedTraders ==
    /\ copyPc = "init"
    /\ \/ /\ copyPc' = "failed"
          /\ UNCHANGED << tracked_traders, copyNextTick >>
       \/ \E rows \in SUBSET TraderRows :
            /\ tracked_traders' =
                 { t.address : t \in { r \in rows : should_track_trader(r) } }
            /\ copyNextTick' = now
            /\ copyPc' = "loop"
    /\ UNCHANGED << notCopy, now, copy_config, copy_is_running,
                    active_copy_trades, scanTodo, recent_trades, copyTodo,
                    copy_to_remove, close_result, nextCopyId, copy_log >>

\* --------------------------------------------- main_copy_trading_loop
\* while *self.is_running.read().await
CopyLoopCheck ==
    /\ copyPc = "loop"
    /\ copyPc' = IF KeepsRunning(copy_is_running) THEN "interval"
                 ELSE "exited"
    /\ UNCHANGED << notCopy, now, copy_config, copy_is_running,
                    tracked_traders, active_copy_trades, copyNextTick,
                    scanTodo, recent_trades, copyTodo, copy_to_remove,
                    close_result, nextCopyId, copy_log >>

\* interval.tick().await
CopyIntervalTick ==
    /\ copyPc = "interval"
    /\ now >= copyNextTick
    /\ copyNextTick' = copyNextTick + copy_config.delay_ms
    /\ scanTodo' = tracked_traders
    /\ copyPc' = "scan"
    /\ copy_log' = NoCopy
    /\ UNCHANGED << notCopy, now, copy_config, copy_is_running,
                    tracked_traders, active_copy_trades, recent_trades,
                    copyTodo, copy_to_remove, close_result, nextCopyId >>

\* ------------------------------------------------ scan_trader_activity
\* get_trader_trades(address).await? for the next tracked trader: an
\* error returns from the scan and the loop goes to its next iteration
ScanTrader ==
    /\ copyPc = "scan"
    /\ \E a \in scanTodo :
         \/ /\ scanTodo' = {}
            /\ recent_trades' = <<>>
            /\ copyPc' = "loop"
         \/ \E list \in TradeLists :
              /\ scanTodo' = scanTodo \ {a}
              /\ recent_trades' = list
              /\ copyPc' = IF list = <<>> THEN "scan" ELSE "trades"
    /\ UNCHANGED << notCopy, now, copy_config, copy_is_running,
                    tracked_traders, active_copy_trades, copyNextTick,
                    copyTodo, copy_to_remove, close_result, nextCopyId, copy_log >>

\* one trade of the inner for loop: is_new_trade, should_copy_trade and
\* execute_copy_trade, whose error the scan logs
ScanTrade ==
    /\ copyPc = "trades"
    /\ LET trade == Head(recent_trades)
       IN  \E sol_balance \in BalanceReplies, token_balance \in BalanceReplies,
              outcome \in TradeOutcomes :
             IF /\ is_new_trade(trade)
                /\ should_copy_trade(trade, sol_balance, token_balance)
                /\ outcome = "ok"
             THEN /\ nextCopyId <= MaxCopies
                  /\ copy_log' = [ copied |-> TRUE,
                                   trade_type |-> trade.trade_type,
                                   amount_sol |-> trade.amount_sol,
                                   sol_balance |-> sol_balance,
                                   token_balance |-> token_balance ]
                  /\ active_copy_trades' =
                       [ id \in DOMAIN active_copy_trades \cup {nextCopyId} |->
                           IF id = nextCopyId
                           THEN [ original_trade_id |-> trade.id,
                                  trade_type |-> trade.trade_type,
                                  price |-> trade.price,
                                  status |-> "pending" ]
                           ELSE active_copy_trades[id] ]
                  /\ nextCopyId' = nextCopyId + 1
             ELSE UNCHANGED << active_copy_trades, nextCopyId, copy_log >>
    /\ recent_trades' = Tail(recent_trades)
    /\ copyPc' = IF Tail(recent_trades) = <<>> THEN "scan" ELSE "trades"
    /\ UNCHANGED << notCopy, now, copy_config, copy_is_running,
                    tracked_traders, copyNextTick, scanTodo, copyTodo,
                    copy_to_remove, close_result >>

\* Ok(()) of scan_trader_activity; process_copy_trades takes the write
\* guard on active_copy_trades
ScanTradersDone ==
    /\ copyPc = "scan"
    /\ scanTodo = {}
    /\ copyTodo' = DOMAIN active_copy_trades
    /\ copy_to_remove' = {}
    /\ close_result' = [ id \in 1..MaxCopies |-> "none" ]
    /\ copyPc' = "process"
    /\ UNCHANGED << notCopy, now, copy_config, copy_is_running,
                    tracked_traders, active_copy_trades, copyNextTick,
                    scanTodo, recent_trades, nextCopyId, copy_log >>

\* ------------------------------------------------- process_copy_trades
\* one entry of the for loop
ProcessCopyTrade ==
    /\ copyPc = "process"
    /\ \E id \in copyTodo :
         /\ copyTodo' = copyTodo \ {id}
         /\ IF active_copy_trades[id].status \in {"completed", "failed"}
            THEN /\ copy_to_remove' = copy_to_remove \cup {id}
                 /\ UNCHANGED << active_copy_trades, close_result >>
            ELSE \E original \in OriginalReplies, price \in PriceReplies :
                   IF should_close_copy_trade(active_copy_trades[id],
                                              original, price)
                   THEN \E outcome \in TradeOutcomes :
                          /\ close_result' =
                               [close_result EXCEPT ![id] =
                                  IF active_copy_trades[id].trade_type = "buy"
                                  THEN outcome ELSE "no_transaction"]
                          /\ IF close_copy_trade(active_copy_trades[id],
                                                 outcome) = "Err"
                             THEN UNCHANGED << active_copy_trades,
                                               copy_to_remove >>
                             ELSE /\ active_copy_trades' =
                                       [active_copy_trades EXCEPT
                                          ![id].status = "completed"]
                                  /\ copy_to_remove' =
                                       copy_to_remove \cup {id}
                   ELSE UNCHANGED << active_copy_trades, copy_to_remove,
                                     close_result >>
    /\ UNCHANGED << notCopy, now, copy_config, copy_is_running,
                    tracked_traders, copyPc, copyNextTick, scanTodo,
                    recent_trades, nextCopyId, copy_log >>

\* for trade_id in to_remove { active_trades.remove(..) }; Ok(())
ProcessCopyDone ==
    /\ copyPc = "process"
    /\ copyTodo = {}
    /\ active_copy_trades' = RemoveKeys(active_copy_trades, copy_to_remove)
    /\ copyPc' = "performance"
    /\ UNCHANGED << notCopy, now, copy_config, copy_is_running,
                    tracked_traders, copyNextTick, scanTodo, recent_trades,
                    copyTodo, copy_to_remove, close_result, nextCopyId, copy_log >>

\* update_trader_performance and update_copy_trading_metrics: figures
\* that are kept outside the model
UpdateCopyMetrics ==
    /\ copyPc = "performance"
    /\ copyPc' = "loop"
    /\ UNCHANGED << notCopy, now, copy_config, copy_is_running,
                    tracked_traders, active_copy_trades, copyNextTick,
                    scanTodo, recent_trades, copyTodo, copy_to_remove,
                    close_result, nextCopyId, copy_log >>

\* the copy trader before start()
CopyAtRest ==
    /\ copy_is_running = FALSE
    /\ tracked_traders = {}
    /\ active_copy_trades = <<>>
    /\ copyPc = "stopped"
    /\ copyNextTick = 0
    /\ scanTodo = {}
    /\ recent_trades = <<>>
    /\ copyTodo = {} /\ copy_to_remove = {}
    /\ close_result = [ id \in 1..MaxCopies |-> "none" ]
    /\ nextCopyId = 1
    /\ copy_log = NoCopy

CopyIdle ==
    /\ copy_config = DefaultCopyConfig
    /\ CopyAtRest

\* =================================================================
\* main (src/src/main.rs) and HeavenTradingBot (src/src/bot.rs)
\* =================================================================
Commands == { "start", "sniper", "copy-trade", "bundler" }

\* BotConfig::default, the fields validate() and HeavenTradingBot::new read
DefaultBotConfig ==
    [ rpc_url |-> "url", program_id |-> "id", max_concurrent_trades |-> 5,
      max_sol_per_trade |-> 10,
      enabled |-> { "sniper", "copy-trade", "bundler" } ]

\* configuration files: each validated field right or wrong, each
\* subsystem enabled or not
BotConfigs ==
    [ rpc_url : { "", "url" }, program_id : { "", "id" },
      max_concurrent_trades : { 0, 5 }, max_sol_per_trade : { 0, 10 },
      enabled : SUBSET { "sniper", "copy-trade", "bundler" } ]

\* BotConfig::validate
validate(c) ==
    IF c.rpc_url = "" THEN "Err"
    ELSE IF c.program_id = "" THEN "Err"
    ELSE IF c.max_concurrent_trades = 0 THEN "Err"
    ELSE IF "sniper" \in c.enabled /\ c.max_sol_per_trade <= 0 THEN "Err"
    ELSE "Ok"

\* BotConfig::from_file(&config)? : the file is read and parsed, or main
\* returns the error
FromFile ==
    /\ mainPc = "from_file"
    /\ \E read \in BOOLEAN : mainPc' = IF read THEN "new" ELSE "exit_err"
    /\ UNCHANGED << bundlerVars, statsPc, decisionVars, sniperVars, copyVars,
                    now, command,
                    bot_config, sup_is_running, spawned, supStopped, healthPc,
                    healthNextTick >>

\* SniperBot::new, CopyTraderBot::new, BundlerBot::new: the fields are
\* stored; validate() is not called
NewSubsystem ==
    /\ mainPc = "new"
    /\ command # "start"
    /\ mainPc' = "start"
    /\ UNCHANGED << bundlerVars, statsPc, decisionVars, sniperVars, copyVars,
                    now, command,
                    bot_config, sup_is_running, spawned, supStopped, healthPc,
                    healthNextTick >>

\* HeavenTradingBot::new: config.validate()?, then the wallet, the
\* adapter, the database and the metrics, each of which may fail
NewSupervisor ==
    /\ mainPc = "new"
    /\ command = "start"
    /\ IF validate(bot_config) = "Err"
       THEN mainPc' = "exit_err"
       ELSE \E built \in BOOLEAN :
              mainPc' = IF built THEN "start" ELSE "exit_err"
    /\ UNCHANGED << bundlerVars, statsPc, decisionVars, sniperVars, copyVars,
                    now, command,
                    bot_config, sup_is_running, spawned, supStopped, healthPc,
                    healthNextTick >>

\* HeavenTradingBot::start up to the wait for the handles: the flag, the
\* metrics server, one task for each component that is Some and one for
\* main_trading_loop
SupervisorStart ==
    /\ mainPc = "start"
    /\ command = "start"
    /\ sup_is_running' = TRUE
    /\ \/ /\ mainPc' = "exit_err"           \* self.metrics.start().await?
          /\ UNCHANGED << spawned, healthPc, healthNextTick >>
       \/ /\ spawned' = bot_config.enabled \cup {"main_trading_loop"}
          /\ healthPc' = "loop"
          /\ healthNextTick' = now
          /\ mainPc' = "awaiting"
    /\ UNCHANGED << bundlerVars, statsPc, decisionVars, sniperVars, copyVars,
                    now, command,
                    bot_config, supStopped >>

\* HeavenTradingBot::stop
SupervisorStop ==
    /\ sup_is_running
    /\ sup_is_running' = FALSE
    /\ supStopped' = TRUE
    /\ UNCHANGED << bundlerVars, statsPc, decisionVars, sniperVars, copyVars,
                    now, command,
                    bot_config, mainPc, spawned, healthPc, healthNextTick >>

\* sniper.start(): called by main for the sniper command, by the spawned
\* task for the start command
Launched(name) ==
    \/ mainPc = "start" /\ command = name
    \/ name \in spawned

RunSniper == Launched("sniper") /\ SniperStart

RunCopyTrader == Launched("copy-trade") /\ CopyStart

RunBundler == Launched("bundler") /\ Start

\* main_trading_loop: while *is_running.read().await
HealthLoopCheck ==
    /\ healthPc = "loop"
    /\ healthPc' = IF sup_is_running THEN "interval" ELSE "exited"
    /\ UNCHANGED << bundlerVars, statsPc, decisionVars, sniperVars, copyVars,
                    now, command,
                    bot_config, mainPc, sup_is_running, spawned, supStopped,
                    healthNextTick >>

\* interval.tick().await
HealthIntervalTick ==
    /\ healthPc = "interval"
    /\ now >= healthNextTick
    /\ healthNextTick' = healthNextTick + ClockStep
    /\ healthPc' = "tick"
    /\ UNCHANGED << bundlerVars, statsPc, decisionVars, sniperVars, copyVars,
                    now, command,
                    bot_config, mainPc, sup_is_running, spawned, supStopped >>

\* the health check, the balance gauge and scan_for_opportunities: their
\* errors are logged and nothing of the model changes
HealthTick ==
    /\ healthPc = "tick"
    /\ healthPc' = "loop"
    /\ UNCHANGED << bundlerVars, statsPc, decisionVars, sniperVars, copyVars,
                    now, command,
                    bot_config, mainPc, sup_is_running, spawned, supStopped,
                    healthNextTick >>

\* a spawned task has finished
TaskDone(name) ==
    CASE name = "sniper" -> sniperPc = "exited"
      [] name = "copy-trade" -> copyPc \in {"exited", "failed"}
      [] name = "bundler" -> tickPc = "exited"
      [] name = "main_trading_loop" -> healthPc = "exited"

\* for handle in handles { handle.await }; Ok(())
SupervisorJoin ==
    /\ mainPc = "awaiting"
    /\ \A name \in spawned : TaskDone(name)
    /\ mainPc' = "returned"
    /\ UNCHANGED << bundlerVars, statsPc, decisionVars, sniperVars, copyVars,
                    now, command,
                    bot_config, sup_is_running, spawned, supStopped, healthPc,
                    healthNextTick >>

\* the bots used as a library: main is not running
MainIdle ==
    /\ command = "none"
    /\ bot_config = DefaultBotConfig
    /\ mainPc = "library"
    /\ sup_is_running = FALSE
    /\ spawned = {}
    /\ supStopped = FALSE
    /\ healthPc = "none"
    /\ healthNextTick = 0

\* =================================================================
\* The decision functions called alone
\* =================================================================
\* sniper sections of the configuration file: the default, a whitelist, a
\* blacklist, a market-cap floor at the LowMarketCap limit
SniperConfigs ==
    { DefaultSniperConfig,
      [DefaultSniperConfig EXCEPT !.whitelisted_tokens = {"m1"}],
      [DefaultSniperConfig EXCEPT !.blacklisted_tokens = {"m1"}],
      [DefaultSniperConfig EXCEPT !.min_market_cap = LowMarketCapLimit],
      [DefaultSniperConfig EXCEPT !.max_sol_per_trade = 40] }

\* TokenLaunch values: each field on both sides of each test that
\* matches_strategy makes
Listings ==
    [ token_mint : Mints, launch_time : {0},
      token_type : {"creator", "community", "other"},
      market_cap : {500, 5000, 50000, 2000000},
      liquidity_sol : {0, 100}, volume_24h : {100, 5000, 20000},
      has_flywheel : BOOLEAN, flywheel_activity : {0, 1},
      price : {100} ]

\* a caller hands a listing to evaluate_launch
NextListing ==
    /\ \E launch \in Listings : eval_launch' = launch
    /\ eval_result' = "unset"
    /\ trade_amount' = None
    /\ UNCHANGED << bundlerVars, now, statsPc, sniperVars, copyVars, mainVars,
                    close_input, close_decision, quoteVars, confirmVars >>

\* self.evaluate_launch(&launch).await, any number of times
EvaluateLaunch ==
    /\ eval_launch.token_mint # "none"
    /\ eval_result' = evaluate_launch(eval_launch, strategies)
    /\ UNCHANGED << bundlerVars, now, statsPc, sniperVars, copyVars, mainVars,
                    eval_launch, close_input, close_decision, trade_amount,
                    quoteVars, confirmVars >>

\* execute_snipe: self.calculate_trade_amount(strategy, launch).await? for
\* the strategy evaluate_launch returned
CalculateTradeAmount ==
    /\ eval_result \notin {"unset", "none"}
    /\ trade_amount = None
    /\ trade_amount' = calculate_trade_amount(eval_result, eval_launch)
    /\ UNCHANGED << bundlerVars, now, statsPc, sniperVars, copyVars, mainVars,
                    eval_launch, eval_result, close_input, close_decision,
                    quoteVars, confirmVars >>

\* trading sections: the default thresholds 0.2 / 0.1, and 0.25 / 0.5,
\* which are binary fractions
TradingThresholds == { <<20, 10>>, <<25, 50>> }

\* Entry prices and price replies in hundredths of a SOL.  With 0.2 / 0.1
\* no price here is on a threshold (the f64 quotient is rounded there);
\* with 0.25 / 0.5 the prices 1.25, 0.5 (entry 1.0), 0.25 (entry 0.5) and
\* 2.5 (entry 2.0) are exactly on one and every quotient is exact.
EntryPrices == { 50, 100, 200 }
ClosePriceReplies == { None, 25, 50, 89, 105, 121, 125, 225, 250 }

ClosePositions ==
    [ kind : {"snipe", "copy"}, entry_price : EntryPrices,
      price : ClosePriceReplies, original : OriginalReplies ]

\* an executed position is looked at in process_active_snipes or
\* process_copy_trades; the adapter and the database reply
NextPosition ==
    /\ \E position \in ClosePositions : close_input' = position
    /\ close_decision' = "unset"
    /\ UNCHANGED << bundlerVars, now, statsPc, sniperVars, copyVars, mainVars,
                    eval_launch, eval_result, trade_amount, quoteVars, confirmVars >>

\* self.should_sell_snipe(snipe).await / self.should_close_copy_trade(..)
DecideClose ==
    /\ close_input.kind # "none"
    /\ close_decision' =
         IF close_input.kind = "snipe"
         THEN IF should_sell_snipe(close_input.entry_price, close_input.price)
              THEN "close" ELSE "hold"
         ELSE IF should_close_copy_trade([ price |-> close_input.entry_price ],
                                         close_input.original,
                                         close_input.price)
              THEN "close" ELSE "hold"
    /\ UNCHANGED << bundlerVars, now, statsPc, sniperVars, copyVars, mainVars,
                    eval_launch, eval_result, close_input, trade_amount,
                    quoteVars, confirmVars >>

\* =================================================================
\* Quotes (src/src/heaven_client.rs)
\* =================================================================
\* Reserves and amounts are whole base units (lamports), rates whole
\* percents.  An f64 is the exact fraction num / den: den = 0 is the
\* infinity for num > 0 and NaN for num = 0.  u64 arithmetic is modulo
\* U64Modulus, which stands for 2^64; every quantity drawn here is far
\* below it.
U64Modulus == 1048576

\* `x as u64` for x = num / den, den >= 0: truncation, NaN and negatives
\* to 0, the infinity to u64::MAX
AsU64(num, den) ==
    IF den = 0 THEN (IF num > 0 THEN U64Modulus - 1 ELSE 0)
    ELSE IF num <= 0 THEN 0
    ELSE num \div den

\* the quote of get_buy_quote once sol_after_fees is known:
\* token_output = token_reserve * sol_after_fees
\*                  / (sol_reserve + sol_after_fees),
\* min_token_output = token_output * (1 - max_slippage)
BuyQuoteOf(q, fee_amount, sol_after_fees, wrapped) ==
    [ tag |-> "Ok", fee |-> fee_amount, after_num |-> sol_after_fees,
      after_den |-> 1, wrapped |-> wrapped,
      out_num |-> q.token_reserve * sol_after_fees * (100 - q.max_slippage),
      out_den |-> (q.sol_reserve + sol_after_fees) * 100 ]

\* get_buy_quote: every result the build can give.  sol_lamports -
\* fee_amount is a u64 subtraction: when the fee is the larger it panics
\* with overflow checks and wraps without them.  No path returns an Err
\* once the pool state is read.
get_buy_quote(q) ==
    LET sol_lamports == q.amount
        fee_amount == AsU64(sol_lamports * q.total_fee_rate, 100)
    IN  IF fee_amount <= sol_lamports
        THEN { BuyQuoteOf(q, fee_amount, sol_lamports - fee_amount, FALSE) }
        ELSE { [ tag |-> "panic" ],
               BuyQuoteOf(q, fee_amount,
                          sol_lamports - fee_amount + U64Modulus, TRUE) }

\* sol_output computed with the two reserves in each other's place
SellOutput_ReservesSwapped(sol_reserve, token_reserve, token_base_units) ==
    [ num |-> token_reserve * token_base_units,
      den |-> sol_reserve + token_base_units ]

\* sol_output = (sol_reserve * token_base_units)
\*                / (token_reserve + token_base_units)
SellOutput(sol_reserve, token_reserve, token_base_units) ==
    [ num |-> sol_reserve * token_base_units,
      den |-> token_reserve + token_base_units ]

\* get_sell_quote for token_base_units: the fee is taken from the
\* output, sol_after_fees = sol_output - fee_amount in f64, then the
\* slippage tolerance.  No path returns an Err once the pool state is
\* read.
get_sell_quote(q, token_base_units) ==
    LET sol_output == SellOutput(q.sol_reserve, q.token_reserve,
                                 token_base_units)
        fee_amount == AsU64(sol_output.num * q.total_fee_rate,
                            sol_output.den * 100)
        after_num == sol_output.num - fee_amount * sol_output.den
    IN  [ tag |-> "Ok", fee |-> fee_amount, after_num |-> after_num,
          after_den |-> sol_output.den, wrapped |-> FALSE,
          out_num |-> after_num * (100 - q.max_slippage),
          out_den |-> sol_output.den * 100 ]

\* pool states get_pool_state may report and the caller's arguments:
\* reserves and amounts from zero up, total fee rates from 0 to above 1,
\* slippage tolerances 0, 0.1 and 1
QuoteInputs ==
    [ tag : {"input"}, sol_reserve : {0, 1, 5, 10},
      token_reserve : {0, 1, 5, 10}, amount : {0, 1, 4, 10},
      total_fee_rate : {0, 1, 50, 99, 100, 150},
      max_slippage : {0, 10, 100} ]

GetBuyQuote ==
    /\ quote_input.tag = "input"
    /\ buy_quote.tag = "unset"
    /\ buy_quote' \in get_buy_quote(quote_input)
    /\ UNCHANGED << bundlerVars, now, statsPc, sniperVars, copyVars, mainVars,
                    eval_launch, eval_result, close_input, close_decision,
                    confirmVars, trade_amount, quote_input, sell_quote, round_trip >>

GetSellQuote ==
    /\ quote_input.tag = "input"
    /\ sell_quote.tag = "unset"
    /\ sell_quote' = get_sell_quote(quote_input, quote_input.amount)
    /\ UNCHANGED << bundlerVars, now, statsPc, sniperVars, copyVars, mainVars,
                    eval_launch, eval_result, close_input, close_decision,
                    confirmVars, trade_amount, quote_input, buy_quote, round_trip >>

\* the quoted token_amount of the buy handed to get_sell_quote:
\* (token_amount * 1e9) as u64
SellBack ==
    /\ buy_quote.tag = "Ok"
    /\ round_trip.tag = "unset"
    /\ round_trip' =
         get_sell_quote(quote_input, AsU64(buy_quote.out_num, buy_quote.out_den))
    /\ UNCHANGED << bundlerVars, now, statsPc, sniperVars, copyVars, mainVars,
                    eval_launch, eval_result, close_input, close_decision,
                    confirmVars, trade_amount, quote_input, buy_quote, sell_quote >>

\* =================================================================
\* wait_for_bundle_confirmation, poll by poll (src/src/bundler.rs)
\* =================================================================
\* the loop condition off by one
PollsLeft_OneMore(count) == count <= max_attempts

\* while attempts < max_attempts
PollsLeft(count) == count < max_attempts

\* One pass of the while loop: get_transaction_status, a return on a
\* decided reply, otherwise attempts += 1 and the one-second sleep
ConfirmPoll ==
    /\ confirm_result = "polling"
    /\ PollsLeft(attempts)
    /\ polls' = polls + 1
    /\ \E reply \in StatusReplies :
         /\ last_poll' = reply
         /\ poll_errors' = IF reply = "rpc_error" THEN poll_errors + 1
                           ELSE poll_errors
         /\ IF reply = "ok"
            THEN confirm_result' = "ok" /\ UNCHANGED attempts
            ELSE IF reply = "err"
            THEN confirm_result' = "chain_err" /\ UNCHANGED attempts
            ELSE attempts' = attempts + 1 /\ UNCHANGED confirm_result
    /\ UNCHANGED << bundlerVars, now, statsPc, sniperVars, copyVars, mainVars,
                    eval_launch, eval_result, close_input, close_decision,
                    trade_amount, quoteVars >>

\* the loop condition fails: Err(Transaction("Bundle confirmation timeout"))
ConfirmTimeout ==
    /\ confirm_result = "polling"
    /\ ~PollsLeft(attempts)
    /\ confirm_result' = "timeout"
    /\ UNCHANGED << bundlerVars, now, statsPc, sniperVars, copyVars, mainVars,
                    eval_launch, eval_result, close_input, close_decision,
                    trade_amount, quoteVars, attempts, polls, poll_errors,
                    last_poll >>

ConfirmIdle ==
    /\ confirm_result = "unset"
    /\ attempts = 0 /\ polls = 0 /\ poll_errors = 0
    /\ last_poll = "none"

\* no decision function has been called
NoListing == [ token_mint |-> "none" ]
NoPosition == [ kind |-> "none" ]

NoQuote == [ tag |-> "unset" ]

QuoteIdle ==
    /\ quote_input = NoQuote
    /\ buy_quote = NoQuote /\ sell_quote = NoQuote /\ round_trip = NoQuote

DecisionIdle ==
    /\ eval_launch = NoListing
    /\ eval_result = "unset"
    /\ close_input = NoPosition
    /\ close_decision = "unset"
    /\ trade_amount = None
    /\ QuoteIdle
    /\ ConfirmIdle

\* ------------------------------------------------------ specification
BundlerIdle ==
    /\ is_running = FALSE
    /\ pending_bundles = <<>>
    /\ active_bundles = <<>>
    /\ pendingW = "none" /\ pendingR = {}
    /\ activeW = "none" /\ activeR = {}
    /\ historyW = "none" /\ historyR = {}
    /\ now = 0 /\ nextTick = 0
    /\ tickPc = "stopped"
    /\ idx = 0 /\ to_remove = <<>>
    /\ retries = 0 /\ delays = <<>>
    /\ signature = None /\ submit_result = "none"
    /\ current_slot = None
    /\ monitor_log = <<>>
    /\ addPc = "idle" /\ addTx = None /\ addCreatedAt = None
    /\ statusPc = "idle"
    /\ ticks = 0 /\ accepted = <<>> /\ submitLog = <<>>
    /\ statsPc = "idle"

InitCommon ==
    /\ BundlerIdle
    /\ DecisionIdle
    /\ SniperIdle
    /\ CopyIdle
    /\ MainIdle

Init ==
    /\ InitCommon
    /\ nextTx = 1 /\ nextId = 1
    /\ config \in ConfigsOf(0..MaxSizeChoice, {DefaultFeeConfig})
    /\ ledger_fees = <<>>
    /\ bundle_history = <<>>
    /\ pushedIds = <<>>

\* every fee configuration, and a ledger whose fee list changes
InitFees ==
    /\ InitCommon
    /\ nextTx = 1 /\ nextId = 1
    /\ config \in ConfigsOf(1..MaxSizeChoice, FeeConfigs)
    /\ ledger_fees \in FeeLists
    /\ bundle_history = <<>>
    /\ pushedIds = <<>>

Next ==
    \/ AddBegin \/ AddCreate \/ AddFeeError
    \/ Start \/ Stop \/ LoopCheck \/ IntervalTick
    \/ ProcessLock \/ ShouldSubmit \/ ProcessDone
    \/ CreateBundleTransaction \/ SendTransaction
    \/ Confirm \/ ApplyActive \/ ApplyHistory
    \/ MonitorActive \/ Cleanup \/ UpdateMetrics
    \/ ClockAdvance

\* the same, with a caller of get_bundler_status running beside the loop
NextQuery ==
    \/ Next
    \/ StatusPending \/ StatusActive \/ StatusReturn

Spec == Init /\ [][Next]_vars

\* A bot that ran before: the history already holds the results of earlier
\* bundles (numbered -1, -2, ... from the oldest) and all but the last of
\* the MaxTx transactions have come and gone.
OldResult(i) ==
    [ bundle_id |-> 0 - i, bundle_signature |-> 0 - i, success |-> TRUE,
      error |-> None, total_transactions |-> 1, priority_fee |-> 150 ]

PrefilledLengths == { HistoryCap - 1, HistoryCap, HistoryCap + Overfill }

InitHistory ==
    /\ InitCommon
    /\ config \in ConfigsOf({1}, {DefaultFeeConfig})
    /\ ledger_fees = <<>>
    /\ nextTx = MaxTx /\ nextId = MaxTx
    /\ \E n \in PrefilledLengths :
         /\ bundle_history = [i \in 1..n |-> OldResult(i)]
         /\ pushedIds = [i \in 1..n |-> 0 - i]

SpecHistory == InitHistory /\ [][Next]_vars

SpecQuery == Init /\ [][NextQuery]_vars

\* add_transaction_to_bundle against a ledger whose fees move, the loop
\* not started
NextFees ==
    \/ AddBegin \/ AddCreate \/ AddFeeError
    \/ LedgerFeesChange

SpecFees == InitFees /\ [][NextFees]_vars

\* Every operation of the bundle engine side by side: two adds, the loop,
\* the status query, the statistics query and stop.  tokio's RwLock is
\* fair (waiters are served in order), so a step that waits for a lock is
\* not passed over for ever: strong fairness for an operation that takes
\* locks.  Ledger calls return: weak fairness for the add, which only
\* waits for a reply once it is under way.
InitLocks ==
    /\ InitCommon
    /\ nextTx = MaxTx - 1 /\ nextId = 1
    /\ config \in { c \in ConfigsOf({1}, {DefaultFeeConfig}) :
                      c.target_block = None }
    /\ ledger_fees = <<>>
    /\ bundle_history = <<>>
    /\ pushedIds = <<>>

NextLocks ==
    \/ NextQuery
    \/ StatsCall \/ StatsReturn

\* the steps of one tick, from the first lock to the end of the iteration
TickStep ==
    \/ ProcessLock \/ ShouldSubmit \/ ProcessDone
    \/ CreateBundleTransaction \/ SendTransaction
    \/ Confirm \/ ApplyActive \/ ApplyHistory
    \/ MonitorActive \/ Cleanup \/ UpdateMetrics

FairLocks ==
    /\ SF_vars(TickStep)
    /\ SF_vars(StatusActive \/ StatusReturn)
    /\ SF_vars(StatsReturn)
    /\ WF_vars(AddCreate \/ AddFeeError)

SpecLocks == InitLocks /\ [][NextLocks]_vars /\ FairLocks

\* The bundle engine with its loop kept running: no call of stop.  Time
\* passes, the loop's interval fires, ledger calls return and the locks
\* are fair.  All but the last two of the MaxTx transactions have come
\* and gone; a bundle takes more than one transaction.
InitRunning ==
    /\ InitCommon
    /\ nextTx = MaxTx - 1 /\ nextId = 1
    /\ config \in ConfigsOf({MaxSizeChoice}, {DefaultFeeConfig})
    /\ ledger_fees = <<>>
    /\ bundle_history = <<>>
    /\ pushedIds = <<>>

NextRunning ==
    \/ AddBegin \/ AddCreate \/ AddFeeError
    \/ Start \/ LoopCheck \/ IntervalTick
    \/ ProcessLock \/ ShouldSubmit \/ ProcessDone
    \/ CreateBundleTransaction \/ SendTransaction
    \/ Confirm \/ ApplyActive \/ ApplyHistory
    \/ MonitorActive \/ Cleanup \/ UpdateMetrics
    \/ ClockAdvance

FairRunning ==
    /\ WF_vars(Start \/ LoopCheck \/ IntervalTick)
    /\ SF_vars(TickStep)
    /\ WF_vars(AddCreate \/ AddFeeError)
    /\ WF_vars(ClockAdvance)

SpecRunning == InitRunning /\ [][NextRunning]_vars /\ FairRunning

\* the sniper loop with a caller of get_sniper_status and of stop beside
\* it; the bundle engine is not started
InitSniper ==
    /\ InitCommon
    /\ nextTx = 1 /\ nextId = 1
    /\ config \in ConfigsOf({1}, {DefaultFeeConfig})
    /\ ledger_fees = <<>>
    /\ bundle_history = <<>>
    /\ pushedIds = <<>>

NextSniper ==
    \/ SniperStart \/ SniperStop \/ SniperLoopCheck \/ SniperIntervalTick
    \/ ScanFetch \/ ScanLock \/ ScanLaunch \/ InsertSnipe \/ ScanEnd
    \/ SnipesLock \/ ProcessSnipe \/ SnipesDone \/ UpdateSniperMetrics
    \/ SniperStatusSnipes \/ SniperStatusReturn
    \/ ClockAdvance

SpecSniper == InitSniper /\ [][NextSniper]_vars

\* the copy trader loop with a caller of stop beside it
NextCopy ==
    \/ CopyStart \/ CopyStop \/ InitializeTrackedTraders
    \/ CopyLoopCheck \/ CopyIntervalTick
    \/ ScanTrader \/ ScanTrade \/ ScanTradersDone
    \/ ProcessCopyTrade \/ ProcessCopyDone \/ UpdateCopyMetrics
    \/ ClockAdvance

\* copy_trader sections: a capacity the copies can reach, and the default
InitCopy ==
    /\ BundlerIdle /\ SniperIdle /\ MainIdle /\ DecisionIdle
    /\ CopyAtRest
    /\ \E max_traders \in (0..(MaxCopies - 1)) \cup {10} :
         copy_config = [DefaultCopyConfig EXCEPT !.max_traders = max_traders]
    /\ nextTx = 1 /\ nextId = 1
    /\ config \in { c \in ConfigsOf({1}, {DefaultFeeConfig}) :
                      c.target_block = None }
    /\ ledger_fees = <<>>
    /\ bundle_history = <<>>
    /\ pushedIds = <<>>

SpecCopy == InitCopy /\ [][NextCopy]_vars

\* One of the three single-subsystem commands of main, from the call of
\* start() on, with a caller of stop() beside the loop.
InitStop ==
    /\ BundlerIdle /\ SniperIdle /\ CopyIdle /\ DecisionIdle
    /\ nextTx = 1 /\ nextId = 1
    /\ config \in { c \in ConfigsOf({1}, {DefaultFeeConfig}) :
                      c.target_block = None }
    /\ ledger_fees = <<>>
    /\ bundle_history = <<>>
    /\ pushedIds = <<>>
    /\ command \in Commands \ {"start"}
    /\ bot_config = DefaultBotConfig
    /\ mainPc = "start"
    /\ sup_is_running = FALSE /\ spawned = {} /\ supStopped = FALSE
    /\ healthPc = "none" /\ healthNextTick = 0

\* add_transaction_to_bundle called on the bundler the command built
AddToBundler == command = "bundler" /\ AddBegin

NextStop ==
    \/ RunSniper \/ RunCopyTrader \/ RunBundler
    \/ SniperStop \/ CopyStop \/ Stop
    \/ SniperLoopCheck \/ SniperIntervalTick
    \/ ScanFetch \/ ScanLock \/ ScanLaunch \/ InsertSnipe \/ ScanEnd
    \/ SnipesLock \/ ProcessSnipe \/ SnipesDone \/ UpdateSniperMetrics
    \/ InitializeTrackedTraders \/ CopyLoopCheck \/ CopyIntervalTick
    \/ ScanTrader \/ ScanTrade \/ ScanTradersDone
    \/ ProcessCopyTrade \/ ProcessCopyDone \/ UpdateCopyMetrics
    \/ AddToBundler \/ AddCreate \/ AddFeeError
    \/ LoopCheck \/ IntervalTick
    \/ ProcessLock \/ ShouldSubmit \/ ProcessDone
    \/ CreateBundleTransaction \/ SendTransaction
    \/ Confirm \/ ApplyActive \/ ApplyHistory
    \/ MonitorActive \/ Cleanup \/ UpdateMetrics
    \/ ClockAdvance

SpecStop == InitStop /\ [][NextStop]_vars

\* main from the parsed command line to the beginning of the first tick
\* of every loop it starts, for every configuration file, with a caller
\* of HeavenTradingBot::stop beside it
InitMain ==
    /\ BundlerIdle /\ SniperIdle /\ CopyIdle /\ DecisionIdle
    /\ nextTx = 1 /\ nextId = 1
    /\ config \in { c \in ConfigsOf({1}, {DefaultFeeConfig}) :
                      c.target_block = None }
    /\ ledger_fees = <<>>
    /\ bundle_history = <<>>
    /\ pushedIds = <<>>
    /\ command \in Commands
    /\ bot_config \in BotConfigs
    /\ mainPc = "from_file"
    /\ sup_is_running = FALSE /\ spawned = {} /\ supStopped = FALSE
    /\ healthPc = "none" /\ healthNextTick = 0

NextMain ==
    \/ FromFile \/ NewSubsystem \/ NewSupervisor
    \/ SupervisorStart \/ SupervisorStop \/ SupervisorJoin
    \/ RunSniper \/ RunCopyTrader \/ RunBundler
    \/ SniperLoopCheck \/ SniperIntervalTick
    \/ InitializeTrackedTraders \/ CopyLoopCheck \/ CopyIntervalTick
    \/ LoopCheck \/ IntervalTick
    \/ HealthLoopCheck \/ HealthIntervalTick \/ HealthTick
    \/ ClockAdvance

SpecMain == InitMain /\ [][NextMain]_vars

\* what every specification of a function called alone starts from
InitAlone ==
    /\ BundlerIdle /\ MainIdle
    /\ SniperAtRest /\ CopyAtRest
    /\ nextTx = 1 /\ nextId = 1
    /\ config \in ConfigsOf({1}, {DefaultFeeConfig})
    /\ ledger_fees = <<>>
    /\ bundle_history = <<>>
    /\ pushedIds = <<>>

\* evaluate_launch on every listing under every sniper configuration
InitEvaluate ==
    /\ InitAlone
    /\ sniper_config \in SniperConfigs
    /\ copy_config = DefaultCopyConfig
    /\ eval_launch \in Listings
    /\ eval_result = "unset"
    /\ close_input = NoPosition /\ close_decision = "unset"
    /\ trade_amount = None
    /\ QuoteIdle
    /\ ConfirmIdle

NextEvaluate == NextListing \/ EvaluateLaunch \/ CalculateTradeAmount

SpecEvaluate == InitEvaluate /\ [][NextEvaluate]_vars

\* the two close decisions on every position, reply and threshold pair;
\* config.trading is one section read by both bots
InitClose ==
    /\ InitAlone
    /\ \E t \in TradingThresholds :
         /\ sniper_config =
              [DefaultSniperConfig EXCEPT !.profit_taking_percentage = t[1],
                                          !.stop_loss_percentage = t[2]]
         /\ copy_config =
              [DefaultCopyConfig EXCEPT !.profit_taking_percentage = t[1],
                                        !.stop_loss_percentage = t[2]]
    /\ eval_launch = NoListing /\ eval_result = "unset"
    /\ trade_amount = None
    /\ QuoteIdle
    /\ ConfirmIdle
    /\ close_input \in ClosePositions
    /\ close_decision = "unset"

NextClose == NextPosition \/ DecideClose

\* the two quote functions on every pool state and amount
InitQuote ==
    /\ InitAlone
    /\ sniper_config = DefaultSniperConfig
    /\ copy_config = DefaultCopyConfig
    /\ eval_launch = NoListing /\ eval_result = "unset"
    /\ close_input = NoPosition /\ close_decision = "unset"
    /\ trade_amount = None
    /\ quote_input \in QuoteInputs
    /\ buy_quote = NoQuote /\ sell_quote = NoQuote /\ round_trip = NoQuote
    /\ ConfirmIdle

NextQuote == GetBuyQuote \/ GetSellQuote \/ SellBack

SpecQuote == InitQuote /\ [][NextQuote]_vars

\* wait_for_bundle_confirmation called for a signature the send returned.
\* get_transaction_status is a blocking call that returns and the sleep
\* ends: weak fairness for the pass of the loop and for the return.
InitConfirm ==
    /\ InitAlone
    /\ sniper_config = DefaultSniperConfig
    /\ copy_config = DefaultCopyConfig
    /\ eval_launch = NoListing /\ eval_result = "unset"
    /\ close_input = NoPosition /\ close_decision = "unset"
    /\ trade_amount = None
    /\ QuoteIdle
    /\ confirm_result = "polling"
    /\ attempts = 0 /\ polls = 0 /\ poll_errors = 0
    /\ last_poll = "none"

NextConfirm == ConfirmPoll \/ ConfirmTimeout

SpecConfirm == InitConfirm /\ [][NextConfirm]_vars /\ WF_vars(NextConfirm)

SpecClose == InitClose /\ [][NextClose]_vars

\* =================================================================
\* Properties
\* =================================================================
Range(s) == { s[i] : i \in 1..Len(s) }

PendingIds == { pending_bundles[i].id : i \in 1..Len(pending_bundles) }

\* the tick is inside process_pending_bundles, holding the pending list
InProcessPending ==
    tickPc \in {"pp_check", "pp_build", "pp_send", "pp_confirm", "pp_active",
                "pp_history"}

\* the bundle in hand is inside submit_bundle or the Ok arm that follows it
Submitting ==
    tickPc \in {"pp_build", "pp_send", "pp_confirm", "pp_active", "pp_history"}

\* C1: every bundle in the pending list and every bundle in the active set
\* holds at most max_bundle_size transactions, for every max_bundle_size
\* that BotConfig::validate lets through.
C1_SizeWithinMax ==
    /\ \A i \in 1..Len(pending_bundles) :
         Len(pending_bundles[i].transactions) <= config.max_bundle_size
    /\ \A id \in DOMAIN active_bundles :
         Len(active_bundles[id].transactions) <= config.max_bundle_size

\* C2: with no tick so far and max_bundle_size = k >= 1, the N accepted
\* transactions sit in ceil(N/k) pending bundles, in creation order, each
\* with at most k transactions, all but the last with exactly k, and the
\* transactions run through the bundles in arrival order.
C2_Formation ==
    LET k == config.max_bundle_size
        N == Len(accepted)
        B == Len(pending_bundles)
    IN  (ticks = 0 /\ k >= 1) =>
          /\ B * k >= N
          /\ (B - 1) * k < N \/ (N = 0 /\ B = 0)
          /\ \A i \in 1..B : Len(pending_bundles[i].transactions) <= k
          /\ \A i \in 1..(B - 1) : Len(pending_bundles[i].transactions) = k
          /\ \A i \in 1..B : \A j \in 1..B :
               i < j => pending_bundles[i].id < pending_bundles[j].id
          /\ Flatten(pending_bundles) = accepted

C2_Witness ==
    /\ ticks = 0
    /\ config.max_bundle_size = 2
    /\ Len(accepted) = 3
    /\ Len(pending_bundles) = 2

\* C3: no bundle id is handed to submit_bundle twice, and a bundle that was
\* handed to it is in the pending list only while the tick that submitted it
\* is still inside process_pending_bundles, as the bundle in hand or as one
\* already marked for removal; once that call has returned it is in the
\* pending list no more.
C3_SubmittedOnce ==
    /\ \A i \in 1..Len(submitLog) : \A j \in 1..Len(submitLog) :
         submitLog[i] = submitLog[j] => i = j
    /\ \A i \in 1..Len(pending_bundles) :
         pending_bundles[i].id \in Range(submitLog) =>
           /\ InProcessPending
           /\ i \in Range(to_remove) \/ (i = idx /\ Submitting)

C3_Witness ==
    /\ tickPc = "monitor"
    /\ ticks = 2
    /\ \E i \in 1..Len(submitLog) : submitLog[i] \in DOMAIN active_bundles
    /\ \E i \in 1..Len(submitLog) : submitLog[i] \notin DOMAIN active_bundles
    /\ pending_bundles # <<>>

\* C4: when the tick examines a pending bundle that is full, or one whose age
\* exceeds max_bundle_time_ms, it hands that bundle to submit_bundle and does
\* not pass over it; and no full bundle is left in the pending list when
\* process_pending_bundles returns.
Full(bundle) == Len(bundle.transactions) >= config.max_bundle_size

Aged(bundle) == now - bundle.created_at > config.max_bundle_time_ms

C4_Trigger ==
    [][ /\ ( /\ tickPc = "pp_check"
             /\ idx <= Len(pending_bundles)
             /\ Full(pending_bundles[idx]) \/ Aged(pending_bundles[idx]) )
           => /\ idx' = idx
              /\ \/ tickPc' = "pp_check" /\ submitLog' = submitLog
                 \/ /\ tickPc' = "pp_build"
                    /\ submitLog' = Append(submitLog, pending_bundles[idx].id)
        /\ (tickPc = "pp_check" /\ tickPc' = "monitor")
           => \A i \in 1..Len(pending_bundles') : ~Full(pending_bundles'[i])
      ]_vars

\* an old bundle that is not full, and has no target block, is being submitted
C4_Witness ==
    /\ tickPc = "pp_build"
    /\ config.target_block = None
    /\ ~Full(pending_bundles[idx])
    /\ Aged(pending_bundles[idx])

\* C5: submit_with_priority_fee sends at most max_retries = 3 times, and when
\* a send succeeds after j failures it returns the signature having slept
\* exactly j times, 100 ms, 200 ms, ...: after two failures, 100 then 200.
C5_RetryBackoff ==
    /\ tickPc = "pp_send" => retries < 3
    /\ tickPc = "pp_confirm" =>
         /\ retries \in 0..2
         /\ signature # None
         /\ Len(delays) = retries
         /\ \A i \in 1..Len(delays) : delays[i] = 100 * i
         /\ retries = 2 => delays = << 100, 200 >>

C5_Witness ==
    /\ tickPc = "pp_confirm"
    /\ retries = 2
    /\ delays = << 100, 200 >>

\* C6: when all three sends fail the call returns its error after the two
\* sleeps of 100 and 200 ms and none after the third failure; the bundle is
\* marked failed and for removal, and is not in the active set.  A bundle
\* whose submission produced no result is never in the active set, is out of
\* the pending list once process_pending_bundles has returned, and is not
\* handed to submit_bundle a second time.
C6_Exhausted ==
    /\ submit_result = "send_failed" =>
         /\ retries = 3
         /\ delays = << 100, 200 >>
         /\ tickPc = "pp_check"
         /\ (idx - 1) \in Range(to_remove)
         /\ pending_bundles[idx - 1].status = "failed"
         /\ pending_bundles[idx - 1].id \notin DOMAIN active_bundles
         /\ pending_bundles[idx - 1].id \notin Range(pushedIds)
    /\ \A i \in 1..Len(submitLog) :
         submitLog[i] \notin Range(pushedIds) =>
           /\ submitLog[i] \notin DOMAIN active_bundles \/
                (tickPc = "pp_history" /\ pending_bundles[idx].id = submitLog[i])
           /\ ~InProcessPending => submitLog[i] \notin PendingIds
           /\ \A j \in 1..Len(submitLog) : submitLog[j] = submitLog[i] => j = i

C6_Witness ==
    /\ submit_result = "send_failed"
    /\ ticks = 2
    /\ Len(pending_bundles) >= 2

\* C7: when submit_bundle has returned for a bundle whose transaction was
\* sent (confirmed, failed on chain, or timed out), the history holds one
\* BundleResult for that bundle, with success true only when confirmed.
C7_OutcomeRecorded ==
    submit_result \in {"ok", "chain_err", "timeout"} =>
      LET id == pending_bundles[idx - 1].id
          hits == { i \in 1..Len(bundle_history) :
                      bundle_history[i].bundle_id = id }
      IN  /\ Cardinality(hits) = 1
          /\ \A i \in hits :
               bundle_history[i].success = (submit_result = "ok")

\* C8: the fee stored on a newly pushed bundle is the larger of
\* base_fee * multiplier, truncated, and the first fee the ledger reports (the
\* base fee when it reports none): 200 and 150 for base 100, multiplier 1.5
\* and network fees 200 and 50.
C8_PriorityFee ==
    [][ Len(pending_bundles') = Len(pending_bundles) + 1 =>
          LET fee == pending_bundles'[Len(pending_bundles')].priority_fee
              base == config.compute_unit_price
              m == config.priority_fee_multiplier
              net == IF ledger_fees = <<>> THEN base ELSE ledger_fees[1]
              floor == CHOOSE q \in 0..(base * m.num) :
                         q * m.den <= base * m.num /\ base * m.num < (q + 1) * m.den
          IN  /\ fee >= floor /\ fee >= net
              /\ fee = floor \/ fee = net
              /\ (base = 100 /\ m = [num |-> 3, den |-> 2] /\ net = 200)
                   => fee = 200
              /\ (base = 100 /\ m = [num |-> 3, den |-> 2] /\ net = 50)
                   => fee = 150
              /\ (ledger_fees = <<>> /\ base = 100 /\ m = [num |-> 1, den |-> 2])
                   => fee = 100
      ]_vars

C8_Witness ==
    /\ config.compute_unit_price = 100
    /\ config.priority_fee_multiplier = [num |-> 3, den |-> 2]
    /\ Len(pending_bundles) = 3
    /\ pending_bundles[1].priority_fee = 200
    /\ pending_bundles[2].priority_fee = 150
    /\ ledger_fees = << 200, 50 >>
    /\ pending_bundles[3].priority_fee = 200

\* C9: once cleanup_completed_bundles has run in a tick the history holds at
\* most 1,000 results, and they are the last ones pushed, in the order they
\* were pushed: all of them when no more than 1,000 were ever pushed, and
\* exactly the last 1,000 otherwise.
TickCleanedUp ==
    \/ tickPc = "metrics"
    \/ ticks >= 1 /\ tickPc \in {"loop", "interval", "exited"}

C9_HistoryCap ==
    TickCleanedUp =>
      LET P == Len(pushedIds)
          H == Len(bundle_history)
      IN  /\ H <= 1000
          /\ P <= 1000 => H = P
          /\ P > 1000 => H = 1000
          /\ \A i \in 1..H : bundle_history[i].bundle_id = pushedIds[P - H + i]

\* a history pre-filled with 1,050 results plus one new result, cut to 1,000
C9_Witness ==
    /\ tickPc = "metrics"
    /\ Len(pushedIds) = HistoryCap + Overfill + 1
    /\ Len(bundle_history) = HistoryCap
    /\ bundle_history[HistoryCap].bundle_id > 0

\* C10: no exclusive lock on the pending list is held while a ledger call is
\* in flight: not by the tick while it builds, sends or confirms a bundle,
\* and not by add_transaction_to_bundle during its fee lookup, so that a
\* status query or an add arriving then can take the lock.
C10_NoLockAcrossNetwork ==
    /\ tickPc \in {"pp_build", "pp_send", "pp_confirm"} => pendingW # "tick"
    /\ addPc = "fee" => pendingW # "add"

\* ----------------------------------------------------------- sniper
\* the tick is inside execute_snipe, holding the watermark for writing
\* and waiting for the position set that a reader holds
TickWaitsForSnipes ==
    sniperPc = "insert" /\ lastScanW = "tick" /\ ~SnipesLockFree

\* get_sniper_status holds the position set for reading and waits for the
\* watermark that a writer holds
StatusWaitsForWatermark ==
    sniperStatusPc = "snipes_read" /\ "status" \in snipesR
    /\ lastScanW # "none"

\* C11: a sniper tick that snipes a listing and a concurrent
\* get_sniper_status never reach a state where the tick waits for the
\* position set held by the status call while the status call waits for
\* the watermark held by the tick.
C11_NoLockCycle == ~(TickWaitsForSnipes /\ StatusWaitsForWatermark)

\* ------------------------------------------------- bundle engine locks
\* the tick waits for a lock somebody else holds
BundlerTickBlocked ==
    \/ tickPc = "pp_lock" /\ ~PendingLockFree
    \/ tickPc \in {"pp_active", "monitor"} /\ ~(activeW = "none" /\ activeR = {})
    \/ tickPc \in {"pp_history", "cleanup"}
         /\ ~(historyW = "none" /\ historyR = {})
    \/ tickPc = "metrics"
         /\ ~(pendingW = "none" /\ activeW = "none" /\ historyW = "none")

\* get_bundler_status waits for a lock a writer holds
BundlerStatusBlocked ==
    \/ statusPc = "pending_read"
         /\ (IF StatusLockOrder[2] = "pending" THEN pendingW ELSE activeW)
              # "none"
    \/ statusPc = "active_read" /\ historyW # "none"

\* an operation of the bundle engine is under way
TickUnderWay == tickPc \notin {"stopped", "loop", "interval", "exited"}

\* C12: with adds, the loop's tick, get_bundler_status, get_bundle_stats
\* and stop interleaved in any way, the tick and the status query never
\* wait for each other, and every operation under way completes: the
\* status query and the statistics query return, the add returns and the
\* tick reaches the end of its iteration.
C12_NoLockHazard ==
    /\ [](~(BundlerTickBlocked /\ BundlerStatusBlocked))
    /\ (statusPc # "idle") ~> (statusPc = "idle")
    /\ (statsPc = "called") ~> (statsPc = "idle")
    /\ (addPc = "fee") ~> (addPc = "idle")
    /\ TickUnderWay ~> (tickPc = "loop")

\* after an add and a stop, with the statistics query called, the tick
\* has to wait in monitor_active_bundles for the active set that the
\* status query is reading
C12_Witness ==
    /\ tickPc = "monitor" /\ BundlerTickBlocked
    /\ statusPc = "active_read" /\ "status" \in activeR
    /\ statsPc = "called"
    /\ accepted # <<>>
    /\ ~is_running

\* ------------------------------------------------------- stop()
\* One step of a run, seen from one subsystem loop (flag and position
\* before and after): the loop leaves only at its running check and only
\* with the flag false; with the flag false the running check leads out
\* and nowhere else; the step that changes the flag leaves the loop's
\* position alone; a flag that stop() has cleared is not set again.
StopDrains(flag, flagNext, pc, pcNext) ==
    /\ (pcNext = "exited" /\ pc # "exited") => (pc = "loop" /\ ~flag)
    /\ (pc = "loop" /\ ~flag) => pcNext \in {"loop", "exited"}
    /\ (flag # flagNext) => (pcNext = pc \/ pc = "stopped")
    /\ (pc # "stopped" /\ ~flag) => ~flagNext

\* with the flag false no tick leaves the wait for its interval
NoTickBegins(flag, pc, pcNext) ==
    (~flag /\ pc = "interval") => pcNext = "interval"

\* C13 as stated: for the bundler, sniper and copy trader loops, stop()
\* does not interrupt the tick that is executing, the loop then exits at
\* its running check, and once stop() has returned no tick's processing
\* steps are started any more.
C13_NoTickAfterStop ==
    [][ /\ StopDrains(is_running, is_running', tickPc, tickPc')
        /\ StopDrains(sniper_is_running, sniper_is_running', sniperPc,
                      sniperPc')
        /\ StopDrains(copy_is_running, copy_is_running', copyPc, copyPc')
        /\ NoTickBegins(is_running, tickPc, tickPc')
        /\ NoTickBegins(sniper_is_running, sniperPc, sniperPc')
        /\ NoTickBegins(copy_is_running, copyPc, copyPc') ]_vars

\* C13 amended: for the bundler, sniper and copy trader loops, stop()
\* does not interrupt the tick that is executing; the flag is looked at
\* only at the running check at the head of the loop, where a cleared
\* flag always ends the loop.  So the tick under way completes, and an
\* iteration that had passed its running check before stop() and was
\* waiting for its interval still runs its tick; no iteration begins
\* after that.
C13_StopDrainsInFlight ==
    [][ /\ StopDrains(is_running, is_running', tickPc, tickPc')
        /\ StopDrains(sniper_is_running, sniper_is_running', sniperPc,
                      sniperPc')
        /\ StopDrains(copy_is_running, copy_is_running', copyPc, copyPc') ]_vars

\* stop() has returned and the sniper's tick that was under way goes on:
\* it is visiting the positions it holds
C13_Witness ==
    /\ command = "sniper"
    /\ ~sniper_is_running
    /\ sniperPc = "process"
    /\ DOMAIN active_snipes # {}

\* -------------------------------------------------------- supervisor
\* a loop's running check lets the loop go on
LoopGoesOn(pc, pcNext) == pc = "loop" /\ pcNext = "interval"

\* C14: under the start command, once HeavenTradingBot::stop() has
\* cleared the supervisor's flag and returned, the running check of no
\* task that start() spawned (sniper, copy trader, bundler, main trading
\* loop) lets its loop go on: they all read the flag stop() cleared.
C14_StopEndsEveryLoop ==
    [][ (command = "start" /\ supStopped) =>
          /\ ~LoopGoesOn(sniperPc, sniperPc')
          /\ ~LoopGoesOn(copyPc, copyPc')
          /\ ~LoopGoesOn(tickPc, tickPc')
          /\ ~LoopGoesOn(healthPc, healthPc') ]_vars

\* ------------------------------------------------------------ entry
\* a subsystem loop has begun its first tick
SomeLoopTicks ==
    \/ sniperPc \notin {"stopped", "loop", "interval", "exited"}
    \/ copyPc \notin {"stopped", "init", "failed", "loop", "interval",
                       "exited"}
    \/ tickPc \notin {"stopped", "loop", "interval", "exited"}

\* C15: whatever the command (start, sniper, copy-trade, bundler), no
\* subsystem loop begins a tick under a configuration that
\* BotConfig::validate rejects (empty RPC URL, empty program id,
\* max_concurrent_trades = 0, enabled sniper with max_sol_per_trade <= 0).
C15_NoLoopOnInvalidConfig ==
    (mainPc # "library" /\ validate(bot_config) = "Err") => ~SomeLoopTicks

\* --------------------------------------------------- evaluate_launch
\* the order the strategies are tried in
FixedOrder ==
    << "CreatorToken", "CommunityToken", "HighVolume", "LowMarketCap",
       "FlywheelActive" >>

MatchingAt(launch) ==
    { i \in 1..Len(FixedOrder) : matches_strategy(launch, FixedOrder[i]) }

\* C16: evaluate_launch returns the first strategy of the order
\* CreatorToken, CommunityToken, HighVolume, LowMarketCap, FlywheelActive
\* whose match predicate holds for the listing and no strategy when none
\* holds, never a later one when an earlier one matches, and evaluating
\* the same listing again under the same configuration gives the same
\* result.
C16_FirstMatchInOrder ==
    /\ [](eval_result # "unset" =>
            IF MatchingAt(eval_launch) = {} THEN eval_result = "none"
            ELSE \E i \in MatchingAt(eval_launch) :
                   /\ eval_result = FixedOrder[i]
                   /\ \A j \in MatchingAt(eval_launch) : i <= j)
    /\ [][ (eval_result # "unset" /\ eval_result' # "unset"
              /\ eval_launch' = eval_launch
              /\ sniper_config' = sniper_config)
           => eval_result' = eval_result ]_vars

\* an earlier and a later strategy both match and the earlier is returned
C16_Witness ==
    /\ eval_result = "CreatorToken"
    /\ matches_strategy(eval_launch, "FlywheelActive")
    /\ sniper_config.whitelisted_tokens # {}

\* ---------------------------------------------------------- watermark
InScan == sniperPc \in {"fetch", "scan_lock", "scan", "insert"}

\* scan_new_launches returns: Err to the loop's `continue`, or Ok
ScanReturns == InScan /\ sniperPc' \notin {"fetch", "scan_lock", "scan", "insert"}

\* C17: every return of scan_new_launches leaves the watermark at the
\* present time: after a clean scan, after a scan in which execute_snipe
\* failed, and after a failed listing fetch; and the loop goes on.
C17_WatermarkAlwaysAdvances ==
    [][ ScanReturns =>
          /\ last_scan_time' = now
          /\ sniperPc' \in {"loop", "snipes_lock"} ]_vars

\* C17 (amended): a scan whose listing fetch succeeded ends with the
\* watermark at the present time, whether or not execute_snipe failed for
\* some listing; a scan whose fetch failed leaves the watermark where it
\* was; in each case the loop goes on.
C17_WatermarkAdvancesAfterFetch ==
    [][ ScanReturns =>
          /\ scanNote' \in {"clean", "snipe_failed"} =>
                (last_scan_time' = now /\ sniperPc' = "snipes_lock")
          /\ scanNote' = "fetch_failed" =>
                (last_scan_time' = last_scan_time /\ sniperPc' = "loop")
          /\ scanNote' \in {"clean", "snipe_failed", "fetch_failed"} ]_vars

\* a scan in which execute_snipe failed has just moved the watermark
C17_Witness ==
    /\ sniperPc = "snipes_lock"
    /\ scanNote = "snipe_failed"
    /\ last_scan_time = now
    /\ now > 0

\* C18: no listing is evaluated twice: a listing (mint and launch time)
\* that a scan has evaluated is skipped by the watermark test of every
\* later scan in which the adapter returns it again.
C18_NoListingEvaluatedTwice ==
    \A key \in DOMAIN evaluated : evaluated[key] <= 1

\* a later scan is about to look at a listing that was evaluated before
C18_Witness ==
    /\ sniperPc = "scan"
    /\ new_launches # <<>>
    /\ ListingKey(Head(new_launches)) \in DOMAIN evaluated
    /\ last_scan_time > 0

\* ------------------------------------------------------ close decision
\* (p - e) / e >= profit_taking  or  (p - e) / e <= -stop_loss, with the
\* thresholds in whole percents and e > 0
RelativeMoveTriggers(e, p, profit_taking, stop_loss) ==
    \/ (p - e) * 100 >= profit_taking * e
    \/ (p - e) * 100 <= (0 - stop_loss) * e

\* the price rule on the position last decided; no reply, no trigger
PriceRuleTriggers ==
    /\ close_input.price # None
    /\ RelativeMoveTriggers(close_input.entry_price, close_input.price,
                            sniper_config.profit_taking_percentage,
                            sniper_config.stop_loss_percentage)

\* entry 1.0, thresholds 0.2 / 0.1: 1.21 and 0.89 close, 1.05 does not
ExamplePrices ==
    (close_input.entry_price = 100
       /\ sniper_config.profit_taking_percentage = 20
       /\ sniper_config.stop_loss_percentage = 10
       /\ (close_input.kind = "copy" => close_input.original = "open"))
    => /\ close_input.price \in {121, 89} => close_decision = "close"
       /\ close_input.price = 105 => close_decision = "hold"

\* C19: for every executed position, of the sniper or of the copy
\* trader, the close decision is true exactly when the relative price
\* move reaches the profit-taking threshold or the stop-loss threshold,
\* and false when the price cannot be fetched.
C19_CloseExactlyOnPriceRule ==
    close_decision # "unset" =>
        (close_decision = "close" <=> PriceRuleTriggers)

\* C19 (amended): a sniper position is closed exactly when the price was
\* fetched and the relative move reaches a threshold; a copy trade is
\* closed exactly when the mirrored original trade is reported closed or
\* sold, or the price was fetched and the relative move reaches a
\* threshold.  With entry 1.0 and thresholds 0.2 / 0.1, 1.21 and 0.89
\* close and 1.05 does not (original still open); without a price only a
\* closed or sold original closes a copy trade.
C19_CloseRule ==
    close_decision # "unset" =>
        /\ close_input.kind = "snipe" =>
              (close_decision = "close" <=> PriceRuleTriggers)
        /\ close_input.kind = "copy" =>
              (close_decision = "close" <=>
                 \/ close_input.original \in {"closed", "sold"}
                 \/ PriceRuleTriggers)
        /\ ExamplePrices

\* a copy trade whose price is inside both thresholds is closed because
\* its original was closed
C19_Witness ==
    /\ close_input.kind = "copy"
    /\ close_input.original = "closed"
    /\ close_input.entry_price = 100 /\ close_input.price = 105
    /\ close_decision = "close"

\* ------------------------------------------------------------- closing
\* C20: a sniper position is in the Sold state, and on the list of
\* entries to evict, only if its closing transaction succeeded: not if a
\* call on the way returned an error, and not if the submitted
\* transaction reported failure.
C20_SoldOnlyAfterSuccessfulClose ==
    \A m \in DOMAIN active_snipes :
        active_snipes[m].status = "Sold" => sell_result[m] = "ok"

\* ----------------------------------------------------------- lifecycle
SnipeTerminal == { "Failed", "Sold" }
CopyTerminal == { "completed", "failed" }

\* a status change the lifecycle allows for a position that stays in the
\* live set: none out of a terminal state, none back to pending
StatusStepAllowed(old, new, terminal, pending, executed) ==
    /\ old \in terminal => new = old
    /\ old \in executed => new \notin pending

\* C21: no position's status leaves a terminal state (Failed, Sold for a
\* snipe; completed, failed for a copy trade) or goes from executed back
\* to pending, and when process_active_snipes / process_copy_trades has
\* returned the live set holds no position in a terminal state.
C21_Lifecycle ==
    /\ [][ /\ \A m \in DOMAIN active_snipes \cap DOMAIN active_snipes' :
                StatusStepAllowed(active_snipes[m].status,
                                  active_snipes'[m].status,
                                  SnipeTerminal, {"Pending"}, {"Executed"})
           /\ \A id \in DOMAIN active_copy_trades
                          \cap DOMAIN active_copy_trades' :
                StatusStepAllowed(active_copy_trades[id].status,
                                  active_copy_trades'[id].status,
                                  CopyTerminal, {"pending"}, {"executed"})
         ]_vars
    /\ [](sniperPc = "metrics" =>
            \A m \in DOMAIN active_snipes :
                active_snipes[m].status \notin SnipeTerminal)
    /\ [](copyPc = "performance" =>
            \A id \in DOMAIN active_copy_trades :
                active_copy_trades[id].status \notin CopyTerminal)

\* a tick has just closed one position and evicted it while another
\* position stays live
C21_Witness ==
    /\ sniperPc = "metrics"
    /\ snipe_to_remove # {}
    /\ DOMAIN active_snipes # {}
    /\ \E m \in Mints : sell_result[m] = "ok"

\* ------------------------------------------------------- failed entry
\* C22: when the entry trade of a snipe has failed, by an error of the
\* submission or by a transaction that reports failure, a failed-trade
\* metric has been recorded for it.
C22_FailedEntryHasMetric ==
    entry_log.outcome \in {"err", "failed"} => entry_log.metric = "failed"

\* C23: should_close_copy_trade is true whenever the mirrored original
\* trade is reported closed or sold, whatever the price reply and also
\* without one; when the look-up of the original fails, the decision is
\* the price rule alone.
C23_OriginalClosedAlwaysCloses ==
    (close_decision # "unset" /\ close_input.kind = "copy") =>
        /\ close_input.original \in {"closed", "sold"} =>
              close_decision = "close"
        /\ close_input.original = "db_error" =>
              (close_decision = "close" <=> PriceRuleTriggers)

\* the original is sold, the price cannot be fetched, the copy is closed
C23_Witness ==
    /\ close_input.kind = "copy"
    /\ close_input.original = "sold"
    /\ close_input.price = None
    /\ close_decision = "close"

\* ------------------------------------------------------- copy trades
\* C24: the live copy-trade set never holds more than max_traders entries.
C24_LiveSetWithinCapacity ==
    Cardinality(DOMAIN active_copy_trades) <= copy_config.max_traders

\* the live set is full and the scan is looking at one more trade
C24_Witness ==
    /\ copyPc = "trades"
    /\ copy_config.max_traders = 1
    /\ Cardinality(DOMAIN active_copy_trades) = 1
    /\ Head(recent_trades).trade_type = "buy"

\* amount_sol * copy_percentage, the percentage in whole percents
CopyAmountTimes100 == copy_log.amount_sol * copy_config.copy_percentage

\* the balance covers the copy amount and the trade is a buy, or a sell
\* of a token the wallet holds
CopiedOnlyIfEligible ==
    /\ copy_log.trade_type \in {"buy", "sell"}
    /\ copy_log.sol_balance # None =>
          copy_log.sol_balance * 100 >= CopyAmountTimes100
    /\ copy_log.trade_type = "sell" =>
          (copy_log.token_balance # None /\ copy_log.token_balance > 0)

\* C25: a trade is copied only if the balance covers amount x
\* copy_percentage, it is a buy or a sell, and for a sell the wallet
\* holds the token; no trade is copied on an unreadable balance or, for
\* a sell, an unreadable holding.
C25_CopiedOnlyIfCovered ==
    copy_log.copied =>
        /\ CopiedOnlyIfEligible
        /\ copy_log.sol_balance # None

\* C25 (amended): as above, but an unreadable balance counts as zero: a
\* trade is copied on an unreadable balance exactly if its copy amount
\* is zero (zero covers zero); an unreadable holding never lets a sell
\* be copied.
C25_CopiedOnlyIfCoveredByZero ==
    copy_log.copied =>
        /\ CopiedOnlyIfEligible
        /\ copy_log.sol_balance = None => CopyAmountTimes100 = 0

\* a sell was copied: the balance covers it and the token is held
C25_Witness ==
    /\ copy_log.copied
    /\ copy_log.trade_type = "sell"
    /\ copy_log.amount_sol = 100
    /\ copy_log.sol_balance = 1000

\* C26: the live set holds at most one copy of each original trade: a
\* trade that was copied and is returned again is not copied again.
C26_OneCopyPerOriginal ==
    \A a, b \in DOMAIN active_copy_trades :
        active_copy_trades[a].original_trade_id
            = active_copy_trades[b].original_trade_id => a = b

\* -------------------------------------------------------------- quotes
\* the f64 num / den is a number >= 0 (the infinity included, NaN not)
NonNegative(num, den) == (den > 0 /\ num >= 0) \/ (den = 0 /\ num > 0)

\* the f64 num / den is a number > 0
Positive(num, den) == num > 0 /\ den >= 0

ZeroReserve == quote_input.sol_reserve = 0 \/ quote_input.token_reserve = 0

\* C27: a quote function never returns a quote when a pool reserve is
\* zero or the computed output is not positive: it fails with
\* InvalidQuote.
C27_InvalidQuoteOnZeroReserve ==
    /\ buy_quote.tag = "Ok" =>
          (~ZeroReserve /\ Positive(buy_quote.out_num, buy_quote.out_den))
    /\ sell_quote.tag = "Ok" =>
          (~ZeroReserve /\ Positive(sell_quote.out_num, sell_quote.out_den))

\* C28: with positive reserves, a total fee rate in [0, 1) and a slippage
\* tolerance in [0, 1], selling the token amount that a buy of amount a
\* quotes, against the same reserves, quotes at most a.
C28_RoundTripLoses ==
    (/\ round_trip.tag = "Ok"
     /\ quote_input.sol_reserve > 0 /\ quote_input.token_reserve > 0
     /\ quote_input.total_fee_rate < 100)
    => round_trip.out_num <= quote_input.amount * round_trip.out_den

\* a round trip with a fee that returns something, and less than went in
C28_Witness ==
    /\ round_trip.tag = "Ok"
    /\ quote_input.sol_reserve > 0 /\ quote_input.token_reserve > 0
    /\ quote_input.total_fee_rate \in 1..99
    /\ round_trip.out_num > 0
    /\ round_trip.out_num < quote_input.amount * round_trip.out_den

\* a quote whose fee, amount after fees and output are numbers >= 0 and
\* whose fee is at most the amount it is taken from
QuoteAmountsSound(quote) ==
    /\ quote.tag = "Ok"
    /\ ~quote.wrapped
    /\ quote.fee >= 0
    /\ NonNegative(quote.after_num, quote.after_den)
    /\ NonNegative(quote.out_num, quote.out_den)

\* C29: for non-negative reserves and amounts, every fee rate and every
\* slippage tolerance in [0, 1], the fee, the amount after fees and the
\* quoted output of both quote functions are non-negative and the fee
\* is never more than the amount it is deducted from: the unsigned
\* subtraction does not underflow.
C29_QuoteAmountsNonNegative ==
    /\ buy_quote.tag # "unset" => QuoteAmountsSound(buy_quote)
    /\ sell_quote.tag # "unset" => QuoteAmountsSound(sell_quote)

\* ------------------------------------------------------- trade amount
\* C30: the amount computed for a snipe is positive, is at most
\* max_sol_per_trade, and for a listing whose market cap is below the
\* risk threshold it is at most half of max_sol_per_trade.
C30_TradeAmountBounded ==
    trade_amount # None =>
        /\ trade_amount > 0
        /\ trade_amount <= sniper_config.max_sol_per_trade
        /\ (eval_launch.market_cap < RiskThreshold
              => 2 * trade_amount <= sniper_config.max_sol_per_trade)

\* =================================================================
\* Bundle engine: triggers, confirmation, monitoring, pending list
\* =================================================================
\* should_submit_bundle has answered for the bundle in hand
TriggerDecided == tickPc' = "pp_build" \/ idx' = idx + 1

\* the target block of the bundle is set and the slot read has reached it
AtTarget(bundle, slot) ==
    bundle.target_block # None /\ slot # None /\ slot >= bundle.target_block

\* C31: a pending bundle is handed to submit_bundle in a tick only if it is
\* full, or older than max_bundle_time_ms, or has a target block that the
\* slot read at that moment has reached; a bundle for which none of the
\* three holds is passed over as it is and is still in the pending list,
\* unchanged, when process_pending_bundles returns.
C31_SubmittedOnlyOnTrigger ==
    [][ /\ ( /\ tickPc = "pp_check"
             /\ idx <= Len(pending_bundles)
             /\ TriggerDecided )
           => LET bundle == pending_bundles[idx]
                  trigger == \/ Full(bundle)
                             \/ Aged(bundle)
                             \/ AtTarget(bundle, current_slot')
              IN  /\ tickPc' = "pp_build" => trigger
                  /\ ~trigger => /\ tickPc' = "pp_check"
                                 /\ idx' = idx + 1
                                 /\ pending_bundles' = pending_bundles
                                 /\ to_remove' = to_remove
                                 /\ submitLog' = submitLog
        /\ (tickPc = "pp_check" /\ tickPc' = "monitor")
           => \A i \in 1..Len(pending_bundles) :
                i \notin Range(to_remove) =>
                  \E j \in 1..Len(pending_bundles') :
                    pending_bundles'[j] = pending_bundles[i]
      ]_vars

\* a bundle with room, not old, whose target block the slot has not
\* reached was passed over (a bundle with room is the last of the list)
C31_Witness ==
    /\ tickPc = "pp_check"
    /\ idx = 2 /\ Len(pending_bundles) = 1
    /\ to_remove = <<>>
    /\ current_slot # None /\ current_slot < pending_bundles[1].target_block
    /\ ~Full(pending_bundles[1]) /\ ~Aged(pending_bundles[1])

\* ------------------------------------------------------- confirmation
ConfirmReturned == confirm_result \in {"ok", "chain_err", "timeout"}

\* C32: wait_for_bundle_confirmation returns after at most 30 polls: Ok
\* at the first poll that reports ok, the Transaction error at the first
\* poll that reports an on-chain error, the timeout error after 30 polls
\* that decided nothing, a poll that failed counting as one of them; once
\* it has returned it polls no more, it changes nothing outside itself,
\* and it does return.
C32_ConfirmationTerminates ==
    /\ [](polls <= 30 /\ attempts <= polls /\ poll_errors <= attempts)
    /\ [](confirm_result = "ok" =>
             last_poll = "ok" /\ polls = attempts + 1)
    /\ [](confirm_result = "chain_err" =>
             last_poll = "err" /\ polls = attempts + 1)
    /\ [](confirm_result = "timeout" =>
             /\ polls = 30 /\ attempts = 30
             /\ last_poll \in {"pending", "rpc_error"})
    /\ [](ConfirmReturned =>
             confirm_result =
               wait_for_bundle_confirmation(
                  attempts, IF last_poll = "ok" THEN "ok" ELSE "err").result)
    /\ [][ /\ last_poll' \in {"ok", "err"} => ConfirmReturned'
           /\ ConfirmReturned => UNCHANGED confirmVars
           /\ UNCHANGED << bundlerVars, now, statsPc, sniperVars, copyVars,
                           mainVars >> ]_vars
    /\ <>ConfirmReturned

\* the timeout after 30 polls of which some failed and some reported a
\* transaction still undecided
C32_Witness ==
    /\ confirm_result = "timeout"
    /\ polls = 30
    /\ poll_errors \in 1..29

\* ---------------------------------------------------------- monitoring
\* C33: when monitor_active_bundles has run, no bundle whose status the
\* ledger reported as ok or as error is in the active set, every bundle
\* whose status was unavailable or undecided is in it exactly as it was,
\* and nothing else has come into it.
C33_MonitorEvictsDecided ==
    [][ (tickPc = "monitor" /\ tickPc' = "cleanup") =>
          /\ DOMAIN monitor_log' = DOMAIN active_bundles
          /\ DOMAIN active_bundles' \subseteq DOMAIN active_bundles
          /\ \A id \in DOMAIN active_bundles :
               /\ monitor_log'[id] \in {"ok", "err"}
                    => id \notin DOMAIN active_bundles'
               /\ monitor_log'[id] \in {"pending", "rpc_error"}
                    => /\ id \in DOMAIN active_bundles'
                       /\ active_bundles'[id] = active_bundles[id]
      ]_vars

\* one bundle reported as failed is gone and one whose poll failed stays
C33_Witness ==
    /\ tickPc = "cleanup"
    /\ \E id \in DOMAIN monitor_log :
         monitor_log[id] = "err" /\ id \notin DOMAIN active_bundles
    /\ \E id \in DOMAIN monitor_log :
         monitor_log[id] = "rpc_error" /\ id \in DOMAIN active_bundles

\* ---------------------------------------------------------- failed scan
\* the tick returns to the head of the while loop
TickEnds == sniperPc \notin {"loop", "stopped"} /\ sniperPc' = "loop"

\* C34: a failing scan step does not starve the rest of the tick: while a
\* position is open, every tick of the sniper loop, one whose listing
\* fetch failed included, goes through process_active_snipes, where the
\* open positions are evaluated for exit, before the loop takes its next
\* tick.
C34_FailedScanStillProcesses ==
    [][ (TickEnds /\ DOMAIN active_snipes # {}) => sniperPc = "metrics" ]_vars

\* --------------------------------------------- pending and active sets
\* get_bundler_status holds the read guard of the pending list
ReaderHoldsPending == "status" \in pendingR

\* C35: while a reader holds the lock of the pending list, no bundle id is
\* both in the pending list and in the active set, every pending bundle
\* has status pending and no signature, and every active bundle has status
\* submitted and a signature; and a bundle comes into the active set only
\* in the Ok arm that follows a confirmation wait that returned success.
C35_PendingAndActiveDisjoint ==
    /\ [](ReaderHoldsPending =>
             /\ PendingIds \cap DOMAIN active_bundles = {}
             /\ \A i \in 1..Len(pending_bundles) :
                  /\ pending_bundles[i].status = "pending"
                  /\ pending_bundles[i].bundle_signature = None
             /\ \A id \in DOMAIN active_bundles :
                  /\ active_bundles[id].status = "submitted"
                  /\ active_bundles[id].bundle_signature # None)
    /\ [][ /\ \A id \in DOMAIN active_bundles' \ DOMAIN active_bundles :
                /\ tickPc = "pp_active"
                /\ pending_bundles[idx].id = id
           /\ (tickPc # "pp_active" /\ tickPc' = "pp_active")
                => tickPc = "pp_confirm" /\ submit_result' # "timeout"
                     /\ submit_result' # "chain_err" ]_vars

\* the reader holds the pending list while one bundle waits in it and
\* another is in the active set
C35_Witness ==
    /\ ReaderHoldsPending
    /\ pending_bundles # <<>>
    /\ DOMAIN active_bundles # {}

\* ------------------------------------------ add_transaction_to_bundle
\* the call returns the error of the fee lookup
AddFails == addPc = "fee" /\ addPc' = "idle" /\ accepted' = accepted

\* the call begins while the last pending bundle has room
AddWithRoom ==
    /\ addPc = "idle"
    /\ pending_bundles # <<>>
    /\ Len(Last(pending_bundles).transactions) < config.max_bundle_size
    /\ (nextTx' # nextTx \/ addPc' # addPc)

\* C36: add_transaction_to_bundle looks the fee up only when it must
\* create a bundle, and fails only when that lookup fails: the pending
\* list is then as it was and the transaction is in no bundle.  When the
\* last pending bundle has room the call makes no lookup, succeeds, and
\* changes nothing but the transaction list of that bundle.
C36_AddFrame ==
    [][ /\ (addPc = "idle" /\ addPc' = "fee") =>
              \/ pending_bundles = <<>>
              \/ Len(Last(pending_bundles).transactions)
                   >= config.max_bundle_size
        /\ AddFails =>
              /\ pending_bundles' = pending_bundles
              /\ active_bundles' = active_bundles
              /\ addTx \notin Range(Flatten(pending_bundles'))
              /\ addTx \notin Range(accepted')
        /\ AddWithRoom =>
              LET n == Len(pending_bundles)
              IN  /\ addPc' = "idle"
                  /\ accepted' = Append(accepted, nextTx)
                  /\ Len(pending_bundles') = n
                  /\ \A i \in 1..(n - 1) :
                       pending_bundles'[i] = pending_bundles[i]
                  /\ pending_bundles'[n] =
                       [pending_bundles[n] EXCEPT
                          !.transactions = Append(@, nextTx)]
                  /\ active_bundles' = active_bundles
                  /\ bundle_history' = bundle_history
      ]_vars

\* a transaction went into the room of the last bundle, which is now
\* full, and the next call, which must create a bundle, is at its fee
\* lookup
C36_Witness ==
    /\ addPc = "fee" /\ addTx = 3
    /\ accepted = << 1, 2 >>
    /\ Len(pending_bundles) = 1
    /\ pending_bundles[1].transactions = << 1, 2 >>

\* ------------------------------------------------- no bundle waits for ever
\* the last value the clock of the model takes
LastNow == (MaxNow \div ClockStep) * ClockStep

\* The bundle with this id is in the pending list and the tick that the
\* interval fires next, which the clock of the model still reaches, finds
\* it older than max_bundle_time_ms.
WaitsForDueTick(id) ==
    /\ tickPc # "stopped"
    /\ nextTick <= LastNow
    /\ \E i \in 1..Len(pending_bundles) :
         /\ pending_bundles[i].id = id
         /\ pending_bundles[i].created_at + config.max_bundle_time_ms
              < nextTick

\* C37: while the loop runs and the ledger answers, a bundle in the
\* pending list leaves it, to the active set or dropped as failed, once a
\* tick finds it older than max_bundle_time_ms, whether it ever fills or
\* not.
C37_PendingEventuallyLeaves ==
    \A id \in 1..MaxTx : WaitsForDueTick(id) ~> (id \notin PendingIds)

\* a bundle that never filled and has no target block was passed over
\* while young, was submitted by a later tick and is out of the list
C37_Witness ==
    /\ config.max_bundle_size >= 2 /\ config.target_block = None
    /\ Len(accepted) = 1
    /\ submitLog = << 1 >>
    /\ ticks >= 2
    /\ pending_bundles = <<>>

\* ------------------------------------------ one bundle per transaction
\* the ids of the bundles, pending or active, that hold the transaction
HoldersIn(tx, pending, active) ==
    { pending[i].id :
        i \in { j \in 1..Len(pending) : tx \in Range(pending[j].transactions) } }
    \cup { id \in DOMAIN active : tx \in Range(active[id].transactions) }

BundlesHolding(tx) == HoldersIn(tx, pending_bundles, active_bundles)

NoRepeat(s) == \A i \in 1..Len(s) : \A j \in 1..Len(s) : s[i] = s[j] => i = j

\* C38: under every interleaving of add_transaction_to_bundle with the
\* ticks, an accepted transaction is in one pending bundle when the call
\* returns and is never in two bundles or twice in one; and a bundle that
\* was handed to submit_bundle, or is in the active set, gets no further
\* transaction.
C38_OneBundlePerTransaction ==
    /\ [](\A tx \in Range(accepted) : Cardinality(BundlesHolding(tx)) <= 1)
    /\ [](\A i \in 1..Len(pending_bundles) :
             /\ NoRepeat(pending_bundles[i].transactions)
             /\ \A j \in 1..Len(pending_bundles) :
                  pending_bundles[i].id = pending_bundles[j].id => i = j)
    /\ [][ /\ accepted' # accepted =>
                LET tx == accepted'[Len(accepted')]
                    holders == HoldersIn(tx, pending_bundles', active_bundles')
                IN  /\ tx \notin Range(accepted)
                    /\ Cardinality(holders) = 1
                    /\ holders \subseteq PendingIds'
                    /\ holders \cap Range(submitLog') = {}
                    /\ holders \cap DOMAIN active_bundles' = {}
           /\ \A i \in 1..Len(pending_bundles) :
                \A j \in 1..Len(pending_bundles') :
                  ( /\ pending_bundles[i].id \in Range(submitLog)
                    /\ pending_bundles'[j].id = pending_bundles[i].id )
                  => pending_bundles'[j].transactions
                       = pending_bundles[i].transactions
           /\ \A id \in DOMAIN active_bundles \cap DOMAIN active_bundles' :
                active_bundles'[id].transactions
                  = active_bundles[id].transactions ]_vars

\* a transaction was accepted between two ticks, after an earlier bundle
\* had been submitted, and went into a bundle of its own
C38_Witness ==
    /\ ticks >= 1
    /\ DOMAIN active_bundles # {}
    /\ Len(accepted) = 3
    /\ pending_bundles # <<>>
    /\ BundlesHolding(3) \cap DOMAIN active_bundles = {}
    /\ Cardinality(BundlesHolding(1)) = 1
    /\ BundlesHolding(1) \subseteq DOMAIN active_bundles

\* ------------------------------------------------- no listing skipped
\* the scan passes over the listing at the head of the list: the
\* watermark test fails for it
PassedOver ==
    /\ sniperPc = "scan"
    /\ new_launches # <<>>
    /\ ~IsNewLaunch(Head(new_launches), last_scan_time)
    /\ new_launches' = Tail(new_launches)

\* C39: the watermark skips no listing: a listing that the scan passes
\* over, and whose launch time is later than the watermark the scan
\* before this one tested with, was evaluated in an earlier tick; a
\* listing launched while that scan was under way is among them.
C39_NoListingSkipped ==
    [][ (PassedOver /\ Head(new_launches).launch_time > prev_watermark)
          => ListingKey(Head(new_launches)) \in DOMAIN evaluated ]_vars

\* ---------------------------------------------------- excluded listings
OnBlacklist(launch) ==
    launch.token_mint \in sniper_config.blacklisted_tokens

OffWhitelist(launch) ==
    /\ sniper_config.whitelisted_tokens # {}
    /\ launch.token_mint \notin sniper_config.whitelisted_tokens

OutsideThresholds(launch) ==
    \/ launch.market_cap < sniper_config.min_market_cap
    \/ launch.market_cap > sniper_config.max_market_cap
    \/ launch.liquidity_sol < sniper_config.min_liquidity_sol
    \/ launch.volume_24h < sniper_config.volume_threshold

Excluded(launch) ==
    OnBlacklist(launch) \/ OffWhitelist(launch) \/ OutsideThresholds(launch)

====
